---- MODULE Spec2Model ----
(***************************************************************************)
(* State-machine model of the C64 emulator core: Memory (banked address    *)
(* space), the chips mapped into it (VIC2, SID, CIA) and the MOS6502 CPU.  *)
(* Byte arrays are sparse functions: a cell that is absent from the        *)
(* function holds the array's fill value (0 for Uint8Array, 14 for color   *)
(* RAM), so all 65536 addresses are modelled.                              *)
(***************************************************************************)
EXTENDS Integers, Sequences, FiniteSets, TLC

\* memory, cpu, vic, sid, cia1, cia2, running: the fields of C64Emulator.
\* hist: the operations performed so far, oldest first, each with its
\*       arguments, its result and the bank configuration it started under.
\* pre:  the machine as it was before the latest operation.
\* clock: the timing fields of C64Emulator, the position of runFrame and
\*       the pending setTimeout callbacks, with counts of what the frame
\*       loop has done so far.
VARIABLES memory, cpu, vic, sid, cia1, cia2, running, hist, pre, clock

vars == <<memory, cpu, vic, sid, cia1, cia2, running, hist, pre, clock>>

(***************************************************************************)
(* Bounds of the model.                                                    *)
(***************************************************************************)
\* Memory operations per behaviour of SpecMem.
MaxOps == 3

\* Processor operations per behaviour of SpecCpu.
MaxCpuOps == 2

\* Operations in a behaviour of SpecFlags.
MaxFlagOps == 2

\* Calls of start(), run(), stop(), pause() and reset() per behaviour of
\* SpecClock.
MaxClockOps == 3

\* Frame loops after which no call is taken and no timer starts another
\* frame on a Running clock.
MaxFrames == 2

\* Calls of chip methods in a behaviour of SpecChips.
MaxChipOps == 3

\* Register operations in a behaviour of SpecRegs.
MaxRegOps == 2

\* Operations in a behaviour of SpecReset.
MaxResetOps == 5

\* Operations in a behaviour of SpecPrg.
MaxPrgOps == 2

\* Operations in a behaviour of SpecRom.
MaxRomOps == 3

\* Steps in a behaviour of SpecCall.
MaxCallOps == 6

\* Calls of forceKeyboardProcess() in a behaviour of SpecKeys, and the
\* longest queue of pending keys.
MaxKeyOps == 2
MaxPending == 3

\* Program lines executed in a behaviour of SpecBasic.
MaxBasicLines == 6

\* Operations in a behaviour of SpecInterrupt.
MaxIntOps == 6

\* Processor cycles after which SpecReady takes no further step.
MaxReadyCycles == 13500

(***************************************************************************)
(* JavaScript integer operators on the values the emulator uses.           *)
(***************************************************************************)
RECURSIVE AndBits(_, _)
AndBits(x, y) ==
    IF x = 0 \/ y = 0 THEN 0
    ELSE (x % 2) * (y % 2) + 2 * AndBits(x \div 2, y \div 2)

RECURSIVE OrBits(_, _)
OrBits(x, y) ==
    IF x = 0 THEN y
    ELSE IF y = 0 THEN x
    ELSE (IF x % 2 = 1 \/ y % 2 = 1 THEN 1 ELSE 0) + 2 * OrBits(x \div 2, y \div 2)

\* x & mask for a non-negative mask: the low bits of a two's-complement x
\* are x modulo a power of two, also when x is negative.
And(x, mask) == AndBits(x % 1073741824, mask)

\* x | y for non-negative operands.
Or(x, y) == OrBits(x, y)

\* x >> n (arithmetic shift) and x << n.
Shr(x, n) == x \div (2 ^ n)
Shl(x, n) == x * (2 ^ n)

(***************************************************************************)
(* Typed arrays as sparse functions.                                       *)
(***************************************************************************)
Get(arr, i, fill) == IF i \in DOMAIN arr THEN arr[i] ELSE fill

Put(arr, i, v, fill) ==
    IF v = fill
    THEN [x \in (DOMAIN arr) \ {i} |-> arr[x]]
    ELSE [x \in (DOMAIN arr) \cup {i} |-> IF x = i THEN v ELSE arr[x]]

Empty == [x \in {} |-> 0]

\* new Uint8Array(n): storing a number keeps its low 8 bits.
U8(v) == v % 256

ColorFill == 14

(***************************************************************************)
(* CIA: 16 registers addressed modulo 16.                                  *)
(***************************************************************************)
CIA_new == [registers |-> Empty]

\* read() that indexes the array with the address as given.
CIA_read_NoMask(c, addr) == Get(c.registers, addr, 0)

CIA_read(c, addr) == Get(c.registers, And(addr, 15), 0)

CIA_write(c, addr, value) ==
    [c EXCEPT !.registers = Put(c.registers, And(addr, 15), U8(value), 0)]

CIA_reset(c) == [c EXCEPT !.registers = Empty]

\* cycle(cycles) has an empty body: no timer is counted.
CIA_cycle(c, cycles) == c

(***************************************************************************)
(* SID: 32 registers, three voices, filter mode and volume.                *)
(***************************************************************************)
SID_voice0 == [frequency |-> 0, pulse |-> 0, waveform |-> 0, adsr |-> 0, gate |-> FALSE]

SID_new ==
    [registers |-> Empty,
     voices |-> <<SID_voice0, SID_voice0, SID_voice0>>,
     filterFreq |-> 0, filterResonance |-> 0, filterMode |-> 0, volume |-> 0]

\* rnd stands for Math.floor(Math.random() * 256).
SID_read(s, address, rnd) ==
    LET reg == And(address, 31) IN
    IF reg = 27 THEN rnd
    ELSE IF reg = 28 THEN rnd
    ELSE IF reg = 25 THEN 255
    ELSE IF reg = 26 THEN 255
    ELSE Get(s.registers, reg, 0)

SID_voiceWrite(v, off, value) ==
    IF off = 0 THEN [v EXCEPT !.frequency = Or(And(v.frequency, 65280), value)]
    ELSE IF off = 1 THEN [v EXCEPT !.frequency = Or(And(v.frequency, 255), Shl(value, 8))]
    ELSE IF off = 4 THEN [v EXCEPT !.waveform = And(Shr(value, 4), 15),
                                   !.gate = (And(value, 1) # 0)]
    ELSE v

SID_write(s, address, value) ==
    LET reg == And(address, 31)
        s1 == [s EXCEPT !.registers = Put(s.registers, reg, U8(value), 0)]
        s2 == IF reg <= 6
              THEN [s1 EXCEPT !.voices[1] = SID_voiceWrite(s1.voices[1], reg, value)]
              ELSE IF reg >= 7 /\ reg <= 13
              THEN [s1 EXCEPT !.voices[2] = SID_voiceWrite(s1.voices[2], reg - 7, value)]
              ELSE IF reg >= 14 /\ reg <= 20
              THEN [s1 EXCEPT !.voices[3] = SID_voiceWrite(s1.voices[3], reg - 14, value)]
              ELSE s1
    IN  IF reg = 24
        THEN [s2 EXCEPT !.filterMode = And(Shr(value, 4), 15), !.volume = And(value, 15)]
        ELSE s2

\* reset() leaves adsr, the filter frequency, resonance and mode alone.
SID_reset(s) ==
    [s EXCEPT !.registers = Empty,
              !.voices = [i \in 1..3 |->
                            [s.voices[i] EXCEPT !.frequency = 0, !.pulse = 0,
                                                !.waveform = 0, !.gate = FALSE]],
              !.volume = 0]

\* cycle(cycles) has an empty body.
SID_cycle(s, cycles) == s

(***************************************************************************)
(* VIC2: 64 registers, raster position, border and background colors.      *)
(* The field cycle is typeof this.cycle: "function" while the object has   *)
(* no own property of that name and the prototype's method is found,       *)
(* "number" once reset() has assigned this.cycle = 0.                      *)
(***************************************************************************)
VIC2_new ==
    [registers |-> Empty, rasterY |-> 0, cycleCounter |-> 0, frameComplete |-> FALSE,
     borderColor |-> 14, backgroundColor |-> 6, cycle |-> "function"]

VIC2_reset(v) ==
    [v EXCEPT !.rasterY = 0,
              !.cycle = "number",
              !.registers = (32 :> 14) @@ (33 :> 6)]

\* The body of the method cycle().
VIC2_cycle(v) ==
    LET v1 == [v EXCEPT !.cycleCounter = v.cycleCounter + 1]
    IN  IF v1.cycleCounter >= 63
        THEN LET v2 == [v1 EXCEPT !.cycleCounter = 0, !.rasterY = v1.rasterY + 1]
             IN  IF v2.rasterY >= 312
                 THEN [v2 EXCEPT !.rasterY = 0, !.frameComplete = TRUE]
                 ELSE v2
        ELSE v1

\* checkRasterIRQ(): the machine with the interrupt flag latched, and the
\* value returned.  Nothing in the sources calls it.
VIC2_checkRasterIRQ(v) ==
    LET rasterLine == Or(Get(v.registers, 18, 0), Shl(And(Get(v.registers, 17, 0), 128), 1))
    IN  IF v.rasterY = rasterLine
        THEN [vic |-> [v EXCEPT !.registers = Put(v.registers, 25, Or(Get(v.registers, 25, 0), 1), 0)],
              ret |-> And(Get(v.registers, 26, 0), 1) # 0]
        ELSE [vic |-> v, ret |-> FALSE]

VIC2_read(v, addr) ==
    LET reg == And(addr, 63) IN
    IF reg = 18 THEN And(v.rasterY, 255)
    ELSE IF reg = 17
    THEN Or(Shr(And(v.rasterY, 256), 1), And(Get(v.registers, reg, 0), 127))
    ELSE Get(v.registers, reg, 0)

VIC2_write(v, addr, value) ==
    LET reg == And(addr, 63)
        v1 == [v EXCEPT !.registers = Put(v.registers, reg, U8(value), 0)]
        v2 == IF reg = 32 THEN [v1 EXCEPT !.borderColor = And(value, 15)] ELSE v1
    IN  IF reg = 33 THEN [v2 EXCEPT !.backgroundColor = And(value, 15)] ELSE v2

(***************************************************************************)
(* Memory.  The operators take the machine m, a record of the objects      *)
(* memory, cpu, vic, sid, cia1, cia2, running (and the next Math.random()   *)
(* byte), because an I/O handler reads and writes the chip it closes over.  *)
(***************************************************************************)
Memory_new ==
    [ram |-> Empty, rom |-> Empty, charset |-> Empty, colorRAM |-> Empty,
     ioHandlers |-> <<>>, bankConfig |-> 55]

\* Map.set under the key `${startAddr}-${endAddr}`: an existing key keeps
\* its position and gets the new handler, a new key is appended.
Memory_setIOHandler(mem, startAddr, endAddr, chip) ==
    LET h == [start |-> startAddr, end |-> endAddr, chip |-> chip]
        hs == mem.ioHandlers
        same == {i \in 1..Len(hs) : hs[i].start = startAddr /\ hs[i].end = endAddr}
    IN  [mem EXCEPT !.ioHandlers =
            IF same = {} THEN Append(hs, h)
            ELSE [i \in 1..Len(hs) |-> IF i \in same THEN h ELSE hs[i]]]

\* The first registered handler whose range contains address, 0 if none.
IOHandlerFor(mem, address) ==
    LET hs == mem.ioHandlers
        hit == {i \in 1..Len(hs) : address >= hs[i].start /\ address <= hs[i].end}
    IN  IF hit = {} THEN 0 ELSE CHOOSE i \in hit : \A j \in hit : i <= j

\* The read closure registered by connectComponents for a chip.
HandlerRead(m, chip, addr) ==
    IF chip = "vic" THEN VIC2_read(m.vic, addr)
    ELSE IF chip = "sid" THEN SID_read(m.sid, addr, m.random)
    ELSE IF chip = "cia1" THEN CIA_read(m.cia1, addr)
    ELSE CIA_read(m.cia2, addr)

\* The write closure registered by connectComponents for a chip.
HandlerWrite(m, chip, addr, val) ==
    IF chip = "vic" THEN [m EXCEPT !.vic = VIC2_write(m.vic, addr, val)]
    ELSE IF chip = "sid" THEN [m EXCEPT !.sid = SID_write(m.sid, addr, val)]
    ELSE IF chip = "cia1" THEN [m EXCEPT !.cia1 = CIA_write(m.cia1, addr, val)]
    ELSE [m EXCEPT !.cia2 = CIA_write(m.cia2, addr, val)]

\* Memory.read that tests LORAM instead of HIRAM for the KERNAL window.
Memory_read_KernalByLoram(m, address0) ==
    LET address == And(address0, 65535)
        mem == m.memory
        h == IOHandlerFor(mem, address)
        config == mem.bankConfig
    IN  IF address >= 55296 /\ address <= 56319
        THEN And(Get(mem.colorRAM, address - 55296, ColorFill), 15)
        ELSE IF h # 0
        THEN HandlerRead(m, mem.ioHandlers[h].chip, address)
        ELSE IF address >= 40960 /\ address <= 49151
        THEN (IF And(config, 1) # 0 THEN Get(mem.rom, address, 0)
              ELSE Get(mem.ram, address, 0))
        ELSE IF address >= 53248 /\ address <= 57343
        THEN (IF And(config, 4) = 0 THEN Get(mem.charset, address - 53248, 0)
              ELSE Get(mem.ram, address, 0))
        ELSE IF address >= 57344 /\ address <= 65535
        THEN (IF And(config, 1) # 0 THEN Get(mem.rom, address, 0)
              ELSE Get(mem.ram, address, 0))
        ELSE Get(mem.ram, address, 0)

\* Memory.read that shows color memory only while CHAREN is set.
Memory_read_ColorBanked(m, address0) ==
    LET address == And(address0, 65535)
        mem == m.memory
        h == IOHandlerFor(mem, address)
        config == mem.bankConfig
    IN  IF address >= 55296 /\ address <= 56319 /\ And(config, 4) # 0
        THEN And(Get(mem.colorRAM, address - 55296, ColorFill), 15)
        ELSE IF h # 0
        THEN HandlerRead(m, mem.ioHandlers[h].chip, address)
        ELSE IF address >= 40960 /\ address <= 49151
        THEN (IF And(config, 1) # 0 THEN Get(mem.rom, address, 0)
              ELSE Get(mem.ram, address, 0))
        ELSE IF address >= 53248 /\ address <= 57343
        THEN (IF And(config, 4) = 0 THEN Get(mem.charset, address - 53248, 0)
              ELSE Get(mem.ram, address, 0))
        ELSE IF address >= 57344 /\ address <= 65535
        THEN (IF And(config, 2) # 0 THEN Get(mem.rom, address, 0)
              ELSE Get(mem.ram, address, 0))
        ELSE Get(mem.ram, address, 0)

Memory_read(m, address0) ==
    LET address == And(address0, 65535)
        mem == m.memory
        h == IOHandlerFor(mem, address)
        config == mem.bankConfig
    IN  IF address >= 55296 /\ address <= 56319
        THEN And(Get(mem.colorRAM, address - 55296, ColorFill), 15)
        ELSE IF h # 0
        THEN HandlerRead(m, mem.ioHandlers[h].chip, address)
        ELSE IF address >= 40960 /\ address <= 49151
        THEN (IF And(config, 1) # 0 THEN Get(mem.rom, address, 0)
              ELSE Get(mem.ram, address, 0))
        ELSE IF address >= 53248 /\ address <= 57343
        THEN (IF And(config, 4) = 0 THEN Get(mem.charset, address - 53248, 0)
              ELSE Get(mem.ram, address, 0))
        ELSE IF address >= 57344 /\ address <= 65535
        THEN (IF And(config, 2) # 0 THEN Get(mem.rom, address, 0)
              ELSE Get(mem.ram, address, 0))
        ELSE Get(mem.ram, address, 0)

\* Memory.write that drops a write to an address where ROM is visible.
Memory_write_RomProtected(m, address0, value0) ==
    LET address == And(address0, 65535)
        value == And(value0, 255)
        mem == m.memory
        h == IOHandlerFor(mem, address)
    IN  IF address = 1
        THEN [m EXCEPT !.memory.bankConfig = value,
                       !.memory.ram = Put(mem.ram, address, value, 0)]
        ELSE IF address >= 55296 /\ address <= 56319
        THEN [m EXCEPT !.memory.colorRAM =
                          Put(mem.colorRAM, address - 55296, And(value, 15), ColorFill)]
        ELSE IF h # 0
        THEN HandlerWrite(m, mem.ioHandlers[h].chip, address, value)
        ELSE IF \/ (address >= 40960 /\ address <= 49151 /\ And(mem.bankConfig, 1) # 0)
                \/ (address >= 57344 /\ address <= 65535 /\ And(mem.bankConfig, 2) # 0)
        THEN m
        ELSE [m EXCEPT !.memory.ram = Put(mem.ram, address, value, 0)]

Memory_write(m, address0, value0) ==
    LET address == And(address0, 65535)
        value == And(value0, 255)
        mem == m.memory
        h == IOHandlerFor(mem, address)
    IN  IF address = 1
        THEN [m EXCEPT !.memory.bankConfig = value,
                       !.memory.ram = Put(mem.ram, address, value, 0)]
        ELSE IF address >= 55296 /\ address <= 56319
        THEN [m EXCEPT !.memory.colorRAM =
                          Put(mem.colorRAM, address - 55296, And(value, 15), ColorFill)]
        ELSE IF h # 0
        THEN HandlerWrite(m, mem.ioHandlers[h].chip, address, value)
        ELSE [m EXCEPT !.memory.ram = Put(mem.ram, address, value, 0)]

\* clear(): this.ram.fill(0) and this.colorRAM.fill(14); bankConfig stays.
Memory_clear(m) == [m EXCEPT !.memory.ram = Empty, !.memory.colorRAM = Empty]

Memory_read16(m, address) ==
    Or(Memory_read(m, address), Shl(Memory_read(m, address + 1), 8))

Memory_write16(m, address, value) ==
    Memory_write(Memory_write(m, address, And(value, 255)),
                 address + 1, And(Shr(value, 8), 255))

RECURSIVE Memory_loadFrom(_, _, _, _)
Memory_loadFrom(m, address, data, i) ==
    IF i > Len(data) THEN m
    ELSE Memory_loadFrom(Memory_write(m, address + (i - 1), data[i]), address, data, i + 1)

Memory_load(m, address, data) == Memory_loadFrom(m, address, data, 1)

(***************************************************************************)
(* MOS6502.                                                                *)
(***************************************************************************)
MOS6502_new ==
    [A |-> 0, X |-> 0, Y |-> 0, SP |-> 253, PC |-> 0,
     N |-> FALSE, V |-> FALSE, B |-> FALSE, D |-> FALSE,
     I |-> FALSE, Z |-> FALSE, C |-> FALSE, cycles |-> 0]

\* reset() that moves the stack pointer down by three, as the hardware does.
MOS6502_reset_DecSP(m) ==
    [m EXCEPT !.cpu.PC = Memory_read16(m, 65532),
              !.cpu.SP = And(m.cpu.SP - 3, 255),
              !.cpu.A = 0,
              !.cpu.X = 0,
              !.cpu.Y = 0,
              !.cpu.I = TRUE]

\* reset() that takes PC from the NMI vector $FFFA.
MOS6502_reset_NmiVector(m) ==
    [m EXCEPT !.cpu.PC = Memory_read16(m, 65530),
              !.cpu.SP = 253,
              !.cpu.A = 0,
              !.cpu.X = 0,
              !.cpu.Y = 0,
              !.cpu.I = TRUE]

MOS6502_reset(m) ==
    [m EXCEPT !.cpu.PC = Memory_read16(m, 65532),
              !.cpu.SP = 253,
              !.cpu.A = 0,
              !.cpu.X = 0,
              !.cpu.Y = 0,
              !.cpu.I = TRUE]

getP(c) ==
    LET p0 == 32
        p1 == IF c.N THEN Or(p0, 128) ELSE p0
        p2 == IF c.V THEN Or(p1, 64) ELSE p1
        p3 == IF c.B THEN Or(p2, 16) ELSE p2
        p4 == IF c.D THEN Or(p3, 8) ELSE p3
        p5 == IF c.I THEN Or(p4, 4) ELSE p4
        p6 == IF c.Z THEN Or(p5, 2) ELSE p5
    IN  IF c.C THEN Or(p6, 1) ELSE p6

\* setP() that takes the break flag from the reserved bit.
setP_BreakFromReserved(c, value) ==
    [c EXCEPT !.N = (And(value, 128) # 0),
              !.V = (And(value, 64) # 0),
              !.B = (And(value, 32) # 0),
              !.D = (And(value, 8) # 0),
              !.I = (And(value, 4) # 0),
              !.Z = (And(value, 2) # 0),
              !.C = (And(value, 1) # 0)]

setP(c, value) ==
    [c EXCEPT !.N = (And(value, 128) # 0),
              !.V = (And(value, 64) # 0),
              !.B = (And(value, 16) # 0),
              !.D = (And(value, 8) # 0),
              !.I = (And(value, 4) # 0),
              !.Z = (And(value, 2) # 0),
              !.C = (And(value, 1) # 0)]

\* setNZ() that tests only the low seven bits for zero.
setNZ_LowBitsZero(c, value) ==
    [c EXCEPT !.N = (And(value, 128) # 0), !.Z = (And(value, 127) = 0)]

setNZ(c, value) ==
    [c EXCEPT !.N = (And(value, 128) # 0), !.Z = (value = 0)]

\* Stack operations.  pull and pull16 return the machine and the value.
push(m, value) ==
    LET m1 == Memory_write(m, 256 + m.cpu.SP, value)
    IN  [m1 EXCEPT !.cpu.SP = And(m.cpu.SP - 1, 255)]

pull(m) ==
    LET m1 == [m EXCEPT !.cpu.SP = And(m.cpu.SP + 1, 255)]
    IN  [m |-> m1, value |-> Memory_read(m1, 256 + m1.cpu.SP)]

\* push16 that pushes the low byte first.
push16_LowFirst(m, value) ==
    push(push(m, And(value, 255)), And(Shr(value, 8), 255))

push16(m, value) ==
    push(push(m, And(Shr(value, 8), 255)), And(value, 255))

pull16(m) ==
    LET lo == pull(m)
        hi == pull(lo.m)
    IN  [m |-> hi.m, value |-> Or(Shl(hi.value, 8), lo.value)]

\* Addressing modes: each returns the machine (PC advanced) and the address.
\* The program counter advanced without the 16-bit mask.
AdvancePC_NoMask(m, n) == [m EXCEPT !.cpu.PC = m.cpu.PC + n]

AdvancePC(m, n) == [m EXCEPT !.cpu.PC = And(m.cpu.PC + n, 65535)]

immediate(m) == [m |-> AdvancePC(m, 1), addr |-> m.cpu.PC]

zeroPage(m) == [m |-> AdvancePC(m, 1), addr |-> Memory_read(m, m.cpu.PC)]

zeroPageX(m) ==
    [m |-> AdvancePC(m, 1), addr |-> And(Memory_read(m, m.cpu.PC) + m.cpu.X, 255)]

zeroPageY(m) ==
    [m |-> AdvancePC(m, 1), addr |-> And(Memory_read(m, m.cpu.PC) + m.cpu.Y, 255)]

absolute(m) == [m |-> AdvancePC(m, 2), addr |-> Memory_read16(m, m.cpu.PC)]

\* absoluteX without the 16-bit mask on the indexed address.
absoluteX_NoMask(m) ==
    [m |-> AdvancePC(m, 2), addr |-> Memory_read16(m, m.cpu.PC) + m.cpu.X]

absoluteX(m) ==
    [m |-> AdvancePC(m, 2), addr |-> And(Memory_read16(m, m.cpu.PC) + m.cpu.X, 65535)]

absoluteY(m) ==
    [m |-> AdvancePC(m, 2), addr |-> And(Memory_read16(m, m.cpu.PC) + m.cpu.Y, 65535)]

\* indirect() without the page-boundary wrap.
indirect_NoWrap(m) ==
    LET ptr == Memory_read16(m, m.cpu.PC)
        m1 == AdvancePC(m, 2)
    IN  [m |-> m1, addr |-> Memory_read16(m1, ptr)]

indirect(m) ==
    LET ptr == Memory_read16(m, m.cpu.PC)
        m1 == AdvancePC(m, 2)
    IN  IF And(ptr, 255) = 255
        THEN [m |-> m1,
              addr |-> Or(Shl(Memory_read(m1, And(ptr, 65280)), 8), Memory_read(m1, ptr))]
        ELSE [m |-> m1, addr |-> Memory_read16(m1, ptr)]

indirectX(m) ==
    LET ptr == And(Memory_read(m, m.cpu.PC) + m.cpu.X, 255)
        m1 == AdvancePC(m, 1)
    IN  [m |-> m1, addr |-> Memory_read16(m1, ptr)]

indirectY(m) ==
    LET ptr == Memory_read(m, m.cpu.PC)
        m1 == AdvancePC(m, 1)
    IN  [m |-> m1, addr |-> And(Memory_read16(m1, ptr) + m1.cpu.Y, 65535)]

relative(m) ==
    LET offset == Memory_read(m, m.cpu.PC)
    IN  [m |-> AdvancePC(m, 1), addr |-> IF offset < 128 THEN offset ELSE offset - 256]

(***************************************************************************)
(* The instruction table.  An instruction returns the machine, its cycle   *)
(* cost and ea, the set of addresses its addressing mode computed.         *)
(***************************************************************************)
Done(m, cycles, ea) == [m |-> m, cycles |-> cycles, ea |-> ea]

\* LDA / LDX / LDY: reg = memory.read(mode()); setNZ(reg).
LoadReg(ar, reg, cycles) ==
    LET value == Memory_read(ar.m, ar.addr)
        c1 == [ar.m.cpu EXCEPT ![reg] = value]
    IN  Done([ar.m EXCEPT !.cpu = setNZ(c1, value)], cycles, {ar.addr})

\* STA / STX / STY: memory.write(mode(), reg).
StoreReg(ar, reg, cycles) ==
    Done(Memory_write(ar.m, ar.addr, ar.m.cpu[reg]), cycles, {ar.addr})

\* TAX, TAY, TXA, TYA, TSX, INX, INY, DEX, DEY: reg = value; setNZ(reg).
SetReg(m, reg, value) ==
    Done([m EXCEPT !.cpu = setNZ([m.cpu EXCEPT ![reg] = value], value)], 2, {})

\* BNE, BEQ, BPL, BMI.
Branch(m, taken) ==
    LET r == relative(m)
    IN  IF taken
        THEN Done([r.m EXCEPT !.cpu.PC = And(r.m.cpu.PC + r.addr, 65535)], 3, {})
        ELSE Done(r.m, 2, {})

\* CMP / CPX immediate with the carry set only when the register is
\* greater than the operand.
Compare_CarryStrict(m, reg) ==
    LET ar == immediate(m)
        value == Memory_read(ar.m, ar.addr)
        result == ar.m.cpu[reg] - value
        c1 == [ar.m.cpu EXCEPT !.C = (ar.m.cpu[reg] > value)]
    IN  Done([ar.m EXCEPT !.cpu = setNZ(c1, And(result, 255))], 2, {ar.addr})

\* CMP / CPX immediate.
Compare(m, reg) ==
    LET ar == immediate(m)
        value == Memory_read(ar.m, ar.addr)
        result == ar.m.cpu[reg] - value
        c1 == [ar.m.cpu EXCEPT !.C = (ar.m.cpu[reg] >= value)]
    IN  Done([ar.m EXCEPT !.cpu = setNZ(c1, And(result, 255))], 2, {ar.addr})

JMP(ar, cycles) == Done([ar.m EXCEPT !.cpu.PC = ar.addr], cycles, {ar.addr})

JSR(m) ==
    LET ar == absolute(m)
        m1 == push16(ar.m, ar.m.cpu.PC - 1)
    IN  Done([m1 EXCEPT !.cpu.PC = ar.addr], 6, {ar.addr})

\* RTS that does not add one to the address it pulls.
RTS_NoIncrement(m) ==
    LET r == pull16(m)
    IN  Done([r.m EXCEPT !.cpu.PC = And(r.value, 65535)], 6, {})

RTS(m) ==
    LET r == pull16(m)
    IN  Done([r.m EXCEPT !.cpu.PC = And(r.value + 1, 65535)], 6, {})

PLA(m) ==
    LET r == pull(m)
        c1 == [r.m.cpu EXCEPT !.A = r.value]
    IN  Done([r.m EXCEPT !.cpu = setNZ(c1, r.value)], 4, {})

RTI(m) ==
    LET p == pull(m)
        m1 == [p.m EXCEPT !.cpu = setP(p.m.cpu, p.value)]
        r == pull16(m1)
    IN  Done([r.m EXCEPT !.cpu.PC = r.value], 6, {})

\* The opcodes buildInstructionTable assigns before the illegal-opcode fill.
DefinedOpcodes ==
    {234, 169, 165, 173, 162, 166, 160, 133, 141, 149, 157, 134, 132,
     170, 168, 138, 152, 154, 186, 232, 200, 202, 136,
     208, 240, 16, 48, 76, 108, 32, 96, 72, 104,
     120, 88, 216, 56, 24, 201, 224, 64}

\* instructions[opcode].call(this)
instructions(m, opcode) ==
    CASE opcode = 234 -> Done(m, 2, {})                                    \* NOP
      [] opcode = 169 -> LoadReg(immediate(m), "A", 2)                        \* LDA #
      [] opcode = 165 -> LoadReg(zeroPage(m), "A", 3)                         \* LDA zp
      [] opcode = 173 -> LoadReg(absolute(m), "A", 4)                         \* LDA abs
      [] opcode = 162 -> LoadReg(immediate(m), "X", 2)                        \* LDX #
      [] opcode = 166 -> LoadReg(zeroPage(m), "X", 3)                         \* LDX zp
      [] opcode = 160 -> LoadReg(immediate(m), "Y", 2)                        \* LDY #
      [] opcode = 133 -> StoreReg(zeroPage(m), "A", 3)                        \* STA zp
      [] opcode = 141 -> StoreReg(absolute(m), "A", 4)                        \* STA abs
      [] opcode = 149 -> StoreReg(zeroPageX(m), "A", 4)                       \* STA zp,X
      [] opcode = 157 -> StoreReg(absoluteX(m), "A", 5)                       \* STA abs,X
      [] opcode = 134 -> StoreReg(zeroPage(m), "X", 3)                        \* STX zp
      [] opcode = 132 -> StoreReg(zeroPage(m), "Y", 3)                        \* STY zp
      [] opcode = 170 -> SetReg(m, "X", m.cpu.A)                           \* TAX
      [] opcode = 168 -> SetReg(m, "Y", m.cpu.A)                           \* TAY
      [] opcode = 138 -> SetReg(m, "A", m.cpu.X)                           \* TXA
      [] opcode = 152 -> SetReg(m, "A", m.cpu.Y)                           \* TYA
      [] opcode = 154 -> Done([m EXCEPT !.cpu.SP = m.cpu.X], 2, {})        \* TXS
      [] opcode = 186 -> SetReg(m, "X", m.cpu.SP)                          \* TSX
      [] opcode = 232 -> SetReg(m, "X", And(m.cpu.X + 1, 255))             \* INX
      [] opcode = 200 -> SetReg(m, "Y", And(m.cpu.Y + 1, 255))             \* INY
      [] opcode = 202 -> SetReg(m, "X", And(m.cpu.X - 1, 255))             \* DEX
      [] opcode = 136 -> SetReg(m, "Y", And(m.cpu.Y - 1, 255))             \* DEY
      [] opcode = 208 -> Branch(m, ~m.cpu.Z)                               \* BNE
      [] opcode = 240 -> Branch(m, m.cpu.Z)                                \* BEQ
      [] opcode = 16 -> Branch(m, ~m.cpu.N)                                \* BPL
      [] opcode = 48 -> Branch(m, m.cpu.N)                                 \* BMI
      [] opcode = 76 -> JMP(absolute(m), 3)                                \* JMP abs
      [] opcode = 108 -> JMP(indirect(m), 5)                               \* JMP (ind)
      [] opcode = 32 -> JSR(m)                                             \* JSR
      [] opcode = 96 -> RTS(m)                                             \* RTS
      [] opcode = 72 -> Done(push(m, m.cpu.A), 3, {})                      \* PHA
      [] opcode = 104 -> PLA(m)                                            \* PLA
      [] opcode = 120 -> Done([m EXCEPT !.cpu.I = TRUE], 2, {})            \* SEI
      [] opcode = 88 -> Done([m EXCEPT !.cpu.I = FALSE], 2, {})            \* CLI
      [] opcode = 216 -> Done([m EXCEPT !.cpu.D = FALSE], 2, {})           \* CLD
      [] opcode = 56 -> Done([m EXCEPT !.cpu.C = TRUE], 2, {})             \* SEC
      [] opcode = 24 -> Done([m EXCEPT !.cpu.C = FALSE], 2, {})            \* CLC
      [] opcode = 201 -> Compare(m, "A")                                   \* CMP #
      [] opcode = 224 -> Compare(m, "X")                                   \* CPX #
      [] opcode = 64 -> RTI(m)                                             \* RTI
      [] OTHER -> Done(m, 2, {})                                           \* illegal

\* new Array(256) after the fill: every index 0..255 holds a function.
HasInstruction(opcode) == opcode \in 0..255

\* this.cycles += cycles; return cycles;
StepResult(r) ==
    Done([r.m EXCEPT !.cpu.cycles = r.m.cpu.cycles + r.cycles], r.cycles, r.ea)

MOS6502_step(m) ==
    IF ~HasInstruction(Memory_read(m, m.cpu.PC))
    THEN Done(AdvancePC(m, 1), 2, {})
    ELSE StepResult(instructions(AdvancePC(m, 1), Memory_read(m, m.cpu.PC)))

\* The interrupt sequence with interrupt-disable set before the status
\* byte is pushed.
Interrupt_DisableBeforePush(m, vector) ==
    LET m1 == push16(m, m.cpu.PC)
        m2 == [m1 EXCEPT !.cpu.I = TRUE]
        m3 == push(m2, Or(getP(m2.cpu), 32))
    IN  [m3 EXCEPT !.cpu.PC = Memory_read16(m3, vector)]

\* The interrupt sequence shared by irq() and nmi().
Interrupt(m, vector) ==
    LET m1 == push16(m, m.cpu.PC)
        m2 == push(m1, Or(getP(m1.cpu), 32))
        m3 == [m2 EXCEPT !.cpu.I = TRUE]
    IN  [m3 EXCEPT !.cpu.PC = Memory_read16(m3, vector)]

MOS6502_irq(m) == IF ~m.cpu.I THEN Interrupt(m, 65534) ELSE m

\* nmi() masked by interrupt-disable like irq().
MOS6502_nmi_Masked(m) == IF ~m.cpu.I THEN Interrupt(m, 65530) ELSE m

MOS6502_nmi(m) == Interrupt(m, 65530)

(***************************************************************************)
(* C64Emulator: ROM loading and component wiring.                          *)
(***************************************************************************)
\* The bytes of the ROM images at the addresses the model looks at; every
\* other ROM byte is 0.  The vectors are NMI $1234, RESET $0200, IRQ $FF48.
RomImage ==
    [rom |-> (40960 :> 148) @@ (49151 :> 227) @@ (57344 :> 133) @@
             (65530 :> 52) @@ (65531 :> 18) @@ (65532 :> 0) @@ (65533 :> 2) @@
             (65534 :> 72) @@ (65535 :> 255),
     charset |-> (0 :> 60) @@ (1051 :> 102) @@ (2048 :> 24) @@
                 (3072 :> 126) @@ (3584 :> 219) @@ (4095 :> 129)]

loadROMs(mem, roms) == [mem EXCEPT !.rom = roms.rom, !.charset = roms.charset]

connectComponents(mem) ==
    LET m1 == Memory_setIOHandler(mem, 53248, 54271, "vic")
        m2 == Memory_setIOHandler(m1, 54272, 55295, "sid")
        m3 == Memory_setIOHandler(m2, 56320, 56575, "cia1")
    IN  Memory_setIOHandler(m3, 56576, 56831, "cia2")

(***************************************************************************)
(* The state machine.                                                      *)
(***************************************************************************)
\* The machine as a record; rnd is the byte the next Math.random() yields.
Machine(rnd) ==
    [memory |-> memory, cpu |-> cpu, vic |-> vic, sid |-> sid,
     cia1 |-> cia1, cia2 |-> cia2, running |-> running, random |-> rnd]

RandomBytes == {7, 200}

OpRec(op, addr, val, ret, ea) ==
    [op |-> op, addr |-> addr, val |-> val, ret |-> ret, ea |-> ea,
     bank |-> memory.bankConfig]

\* One operation: the machine becomes m2 and the operation is recorded.
Commit(m, m2, rec) ==
    /\ memory' = m2.memory
    /\ cpu' = m2.cpu
    /\ vic' = m2.vic
    /\ sid' = m2.sid
    /\ cia1' = m2.cia1
    /\ cia2' = m2.cia2
    /\ hist' = Append(hist, rec)
    /\ running' = m2.running
    /\ pre' = m
    /\ clock' = clock

\* The timing fields the C64Emulator constructor sets, no frame loop
\* entered and no callback pending.
\*   pc           "idle" outside runFrame, "loop" at the head of its loop
\*   cycles       the local variable cycles of the runFrame in progress
\*   timers       pending setTimeout(() => this.runFrame()) callbacks
\*   basicTimers  pending setTimeout callbacks of reset()
\*   tick         the latest loop iteration: the cycles step() returned, the
\*                completed vic.cycle() calls, the arguments of the calls of
\*                cia1.cycle, cia2.cycle and sid.cycle, whether it faulted
\*   steps, stepCycles, vicCycles   totals over all loop iterations
\*   errors       console.error reports of the frame loop
\*   signals      calls of onFrameComplete
\*   ops, frames  calls of the public operations, frame loops entered
\*   last, was    the latest action, and running, steps, timers, frames,
\*                frameCount, errors and signals before it
NoTick == [n |-> 0, vic |-> 0, cia1 |-> <<>>, cia2 |-> <<>>, sid |-> <<>>, error |-> FALSE]

C64Emulator_new(palMode) ==
    [palMode |-> palMode,
     cyclesPerFrame |-> IF palMode THEN 19656 ELSE 17095,
     frameRate |-> IF palMode THEN 50 ELSE 60,
     frameCount |-> 0,
     basicReady |-> FALSE,
     pc |-> "idle", cycles |-> 0, timers |-> 0, basicTimers |-> 0,
     tick |-> NoTick, steps |-> 0, stepCycles |-> 0, vicCycles |-> 0,
     errors |-> 0, signals |-> 0, ops |-> 0, frames |-> 0,
     last |-> "new",
     was |-> [running |-> FALSE, steps |-> 0, timers |-> 0, frames |-> 0, frameCount |-> 0,
                errors |-> 0, signals |-> 0]]

\* The objects the C64Emulator constructor creates, around a given Memory.
Constructed(mem) ==
    /\ memory = mem
    /\ cpu = MOS6502_new
    /\ vic = VIC2_new
    /\ sid = SID_new
    /\ cia1 = CIA_new
    /\ cia2 = CIA_new
    /\ running = FALSE
    /\ hist = <<>>
    /\ pre = Machine(0)
    /\ clock = C64Emulator_new(TRUE)

(***************************************************************************)
(* C64Emulator: machine reset and the frame clock.  The operators take and *)
(* return the emulator e: the machine e.m and the timing fields e.k.       *)
(***************************************************************************)
\* for (i = 0; i < data.length; i++) memory.write(base + i, data[i]), for
\* a block that lies in screen RAM ($0400-$07E7) or in color memory, where
\* write() stores the byte in ram, or its low nibble in colorRAM, and does
\* nothing else.  The cells are stored in one step.
Memory_writeSeq(m, base, data) ==
    LET n == Len(data)
        inBlock(x) == x >= base /\ x < base + n
    IN  IF base >= 55296
        THEN LET old == m.memory.colorRAM
                 val(x) == IF inBlock(x + 55296)
                           THEN And(And(data[x + 55296 - base + 1], 255), 15)
                           ELSE Get(old, x, ColorFill)
                 cells == DOMAIN old \cup {a - 55296 : a \in base..(base + n - 1)}
             IN  [m EXCEPT !.memory.colorRAM =
                     [x \in {y \in cells : val(y) # ColorFill} |-> val(x)]]
        ELSE LET old == m.memory.ram
                 val(x) == IF inBlock(x) THEN And(data[x - base + 1], 255)
                           ELSE Get(old, x, 0)
                 cells == DOMAIN old \cup base..(base + n - 1)
             IN  [m EXCEPT !.memory.ram = [x \in {y \in cells : val(y) # 0} |-> val(x)]]

\* The screen codes of the three lines of the startup message.
StartupLine1 ==
    <<32, 32, 32, 32, 42, 42, 42, 42, 32, 3, 15, 13, 13, 15, 4, 15, 18, 5, 32,
      54, 52, 32, 2, 1, 19, 9, 3, 32, 22, 50, 32, 42, 42, 42, 42>>
StartupLine3 ==
    <<54, 52, 11, 32, 18, 1, 13, 32, 19, 25, 19, 20, 5, 13, 32, 32,
      51, 56, 57, 49, 49, 32, 2, 1, 19, 9, 3, 32, 2, 25, 20, 5, 19, 32, 6, 18, 5, 5>>
StartupLine5 == <<18, 5, 1, 4, 25, 46>>

\* The screen cleared to spaces, color memory to light blue, then the three
\* lines.  (The cursor position it sets belongs to the text display.)
C64Emulator_displayStartupMessage(m) ==
    Memory_writeSeq(
        Memory_writeSeq(
            Memory_writeSeq(
                Memory_writeSeq(
                    Memory_writeSeq(m, 1024, [i \in 1..1000 |-> 32]),
                    55296, [i \in 1..1000 |-> 14]),
                1024, StartupLine1),
            1024 + 2 * 40, StartupLine3),
        1024 + 4 * 40, StartupLine5)

\* The chips of the machine after their reset() calls, in the order of
\* reset(): cpu, vic, cia1, cia2, sid.
ResetComponents(m) ==
    [MOS6502_reset(m) EXCEPT !.vic = VIC2_reset(m.vic),
                             !.cia1 = CIA_reset(m.cia1),
                             !.cia2 = CIA_reset(m.cia2),
                             !.sid = SID_reset(m.sid)]

\* this.vic.registers[...] = ... for border, background, memory pointers
\* and the two control registers.
SetDisplayRegisters(m) ==
    [m EXCEPT !.vic.registers =
        (32 :> 14) @@ (33 :> 6) @@ (24 :> 20) @@ (17 :> 27) @@ (22 :> 200) @@ m.vic.registers]

\* The keyboard buffer count and strobe cleared, the decode-table vector.
SetKeyboardCells(m) ==
    Memory_write(Memory_write(Memory_write(Memory_write(m, 198, 0), 203, 0), 655, 74), 656, 235)

\* this.cia1.registers[0x0D] = 0x81
EnableTimerInterrupts(m) ==
    [m EXCEPT !.cia1.registers = Put(m.cia1.registers, 13, 129, 0)]

\* The reset without its loop that clears RAM.
ResetCore_KeepsRam(m) ==
    ResetComponents(Memory_write(Memory_write(m, 0, 47), 1, 55))

\* RAM cleared, the processor port written, the components reset.
ResetCore(m) ==
    ResetComponents(Memory_write(Memory_write([m EXCEPT !.memory.ram = Empty], 0, 47), 1, 55))

\* The display registers, the startup message and color memory.
ResetDisplay(m) ==
    Memory_writeSeq(C64Emulator_displayStartupMessage(SetDisplayRegisters(m)),
                    55296, [i \in 1..1000 |-> 14])

C64Emulator_reset(e) ==
    [m |-> EnableTimerInterrupts(SetKeyboardCells(ResetDisplay(ResetCore(e.m)))),
     k |-> [e.k EXCEPT !.frameCount = 0,
                       !.basicTimers = IF e.m.running THEN @ + 1 ELSE @]]

\* init(): the ROMs loaded, the components connected, the first reset.
C64Emulator_init(e) ==
    C64Emulator_reset([e EXCEPT !.m.memory = connectComponents(loadROMs(e.m.memory, RomImage))])

\* The callback reset() schedules: C64Emulator_setupBASICInterpreter().
C64Emulator_setupBASICInterpreter(e) == [e EXCEPT !.k.basicReady = TRUE]

\* The loop of forceKeyboardProcess(): bufferIndex is a const read before
\* the loop, so the loop condition sees the same value in every iteration.
RECURSIVE DrainPendingKeys(_, _)
DrainPendingKeys(m, bufferIndex) ==
    IF Len(m.cia1.pendingKeys) > 0 /\ bufferIndex < 10
    THEN DrainPendingKeys(
             Memory_write(
                 Memory_write(
                     Memory_write([m EXCEPT !.cia1.pendingKeys = Tail(@)],
                                  631 + bufferIndex, Head(m.cia1.pendingKeys)),
                     198, bufferIndex + 1),
                 203, 1),
             bufferIndex)
    ELSE m

C64Emulator_forceKeyboardProcess(m) ==
    LET bufferIndex == Memory_read(m, 198)
    IN  IF Len(m.cia1.pendingKeys) > 0
        THEN MOS6502_irq(DrainPendingKeys(m, bufferIndex))
        ELSE m

(***************************************************************************)
(* The BASIC line interpreter of C64Emulator.  A statement is the parsed   *)
(* form of a program line: its keyword, the line number it names, and for  *)
(* IF the value of its condition and the keyword of the action after THEN  *)
(* ("NUMBER" when the action is a bare line number).  printToScreen is the *)
(* sequence of the texts it was called with.                               *)
(***************************************************************************)
Stmt(kind, target) == [kind |-> kind, target |-> target, cond |-> TRUE, then |-> "NONE"]

IfStmt(cond, then, target) == [kind |-> "IF", target |-> target, cond |-> cond, then |-> then]

\* JavaScript values of an index: a number, undefined, or NaN.
Num(n) == [t |-> "number", n |-> n]
Undefined == [t |-> "undefined", n |-> 0]
NaN == [t |-> "NaN", n |-> 0]

\* v + 1
PlusOne(v) == IF v.t = "number" THEN Num(v.n + 1) ELSE NaN

\* The values executeLine returns: null, 'END', a number, and the objects
\* of type GOTO and GOTO_INDEX.
ResultNull == [type |-> "null", value |-> Num(0)]
ResultEnd == [type |-> "END", value |-> Num(0)]
ResultNumber(n) == [type |-> "number", value |-> Num(n)]
ResultGoto(target) == [type |-> "GOTO", value |-> Num(target)]
ResultGotoIndex(index) == [type |-> "GOTO_INDEX", value |-> index]

printToScreen(k, text) == [k EXCEPT !.printed = Append(@, text)]

executeGOSUB(k, statement) ==
    [k |-> [k EXCEPT !.basicCallStack =
                Append(@, [returnLine |-> k.currentExecutionLine,
                           returnIndex |-> k.currentExecutionIndex])],
     result |-> ResultGoto(statement.target)]

executeRETURN(k) ==
    IF Len(k.basicCallStack) = 0
    THEN [k |-> printToScreen(k, "?RETURN WITHOUT GOSUB ERROR"), result |-> ResultEnd]
    ELSE LET returnInfo == k.basicCallStack[Len(k.basicCallStack)]
         IN  [k |-> [k EXCEPT !.basicCallStack = SubSeq(@, 1, Len(@) - 1)],
              result |-> ResultGotoIndex(PlusOne(returnInfo.returnIndex))]

\* executeLine on a statement that is not an IF: the execution position
\* stored, then the statement by its keyword.
executeSimple(k, lineNum, kind, target, currentIndex) ==
    LET k1 == [k EXCEPT !.currentExecutionLine = lineNum,
                        !.currentExecutionIndex = currentIndex]
    IN  CASE kind = "GOSUB" -> executeGOSUB(k1, Stmt(kind, target))
          [] kind = "RETURN" -> executeRETURN(k1)
          [] kind = "PRINT" -> [k |-> printToScreen(k1, "TEXT"), result |-> ResultNull]
          [] kind = "GOTO" -> [k |-> k1, result |-> ResultGoto(target)]
          [] kind = "END" -> [k |-> k1, result |-> ResultEnd]
          [] OTHER -> [k |-> k1, result |-> ResultNull]

\* executeIF: a true condition returns parseInt(action) for a line number
\* and otherwise this.executeLine(0, action), which has no index argument.
executeIF(k, statement) ==
    IF statement.cond
    THEN IF statement.then = "NUMBER"
         THEN [k |-> k, result |-> ResultNumber(statement.target)]
         ELSE executeSimple(k, 0, statement.then, statement.target, Undefined)
    ELSE [k |-> k, result |-> ResultNull]

executeLine(k, lineNum, statement, currentIndex) ==
    IF statement.kind = "IF"
    THEN executeIF([k EXCEPT !.currentExecutionLine = lineNum,
                             !.currentExecutionIndex = currentIndex], statement)
    ELSE executeSimple(k, lineNum, statement.kind, statement.target, currentIndex)

\* Array.from(map.entries()).sort((a, b) => a[0] - b[0])
RECURSIVE SortedEntries(_, _)
SortedEntries(program, nums) ==
    IF nums = {} THEN <<>>
    ELSE LET least == CHOOSE n \in nums : \A o \in nums : n <= o
         IN  <<[num |-> least, content |-> program[least]]>>
             \o SortedEntries(program, nums \ {least})

\* sortedLines.findIndex(([num]) => num >= target), counted from 0.
FindIndex(sortedLines, target) ==
    LET hits == {i \in 1..Len(sortedLines) : sortedLines[i].num >= target}
    IN  IF hits = {} THEN -1 ELSE (CHOOSE i \in hits : \A j \in hits : i <= j) - 1

NoContext == [live |-> FALSE, sortedLines |-> <<>>, currentIndex |-> Num(0), running |-> FALSE]

\* this.printToScreen(''); this.printToScreen('READY.'); this.executionContext = null
ProgramOver(k) ==
    [printToScreen(printToScreen(k, ""), "READY.") EXCEPT !.executionContext = NoContext,
                                                           !.scheduled = FALSE]

\* executeNextLine(): one pass of the closure that continueExecution
\* starts and setTimeout(executeNextLine, 0) repeats.  Indexing sortedLines
\* with NaN yields undefined, whose destructuring throws a TypeError that
\* nothing catches.
executeNextLine(k) ==
    LET ctx == k.executionContext
        currentIndex == ctx.currentIndex
        sortedLines == ctx.sortedLines
    IN  IF \/ currentIndex.t = "number" /\ currentIndex.n >= Len(sortedLines)
           \/ currentIndex.t = "number" /\ currentIndex.n < 0
           \/ ~ctx.running
        THEN ProgramOver(k)
        ELSE IF currentIndex.t # "number"
        THEN [k EXCEPT !.scheduled = FALSE, !.uncaught = @ + 1]
        ELSE LET line == sortedLines[currentIndex.n + 1]
                 r == executeLine(k, line.num, line.content, currentIndex)
                 k1 == [r.k EXCEPT !.lines = @ + 1,
                                   !.executed = [index |-> currentIndex.n, num |-> line.num,
                                                   content |-> line.content,
                                                   result |-> r.result,
                                                   depthBefore |-> Len(k.basicCallStack),
                                                   depth |-> Len(r.k.basicCallStack)]]
                 targetIndex == FindIndex(sortedLines, r.result.value.n)
             IN  IF r.result.type = "END"
                 THEN ProgramOver(k1)
                 ELSE IF r.result.type = "GOTO" /\ targetIndex = -1
                 THEN ProgramOver([printToScreen(k1, "?UNDEFINED STATEMENT ERROR")
                                      EXCEPT !.executionContext.running = FALSE])
                 ELSE [k1 EXCEPT !.executionContext.currentIndex =
                                     IF r.result.type = "GOTO" THEN Num(targetIndex)
                                     ELSE IF r.result.type = "GOTO_INDEX" THEN r.result.value
                                     ELSE PlusOne(currentIndex),
                                 !.scheduled = TRUE]

continueExecution(k) ==
    IF ~k.executionContext.live \/ ~k.executionContext.running THEN k
    ELSE executeNextLine(k)

executeRUN(k) ==
    LET k1 == [printToScreen(k, "") EXCEPT !.basicCallStack = <<>>]
        sortedLines == SortedEntries(k.basicProgram, DOMAIN k.basicProgram)
    IN  IF Len(sortedLines) = 0
        THEN printToScreen(k1, "READY.")
        ELSE continueExecution([k1 EXCEPT !.executionContext =
                                   [live |-> TRUE, sortedLines |-> sortedLines,
                                    currentIndex |-> Num(0), running |-> TRUE]])

\* cia1.processKeyboard() is called by runFrame; the CIA class in the
\* sources does not define it.  It is taken to leave the machine as it is.
CIA_processKeyboard(e) == e

\* runFrame() without its test of this.running.
C64Emulator_runFrame_Unguarded(e) ==
    CIA_processKeyboard([e EXCEPT !.k.cycles = 0, !.k.pc = "loop", !.k.frames = @ + 1])

\* runFrame() up to the head of its loop.
C64Emulator_runFrame(e) ==
    IF ~e.m.running THEN e
    ELSE CIA_processKeyboard([e EXCEPT !.k.cycles = 0, !.k.pc = "loop",
                                       !.k.frames = @ + 1])

C64Emulator_run(e) ==
    IF e.m.running THEN e
    ELSE C64Emulator_runFrame([e EXCEPT !.m.running = TRUE])

\* start() without its test of this.running.
C64Emulator_start_Unguarded(e) ==
    C64Emulator_runFrame(IF ~e.k.basicReady
                  THEN C64Emulator_setupBASICInterpreter([e EXCEPT !.m.running = TRUE])
                  ELSE [e EXCEPT !.m.running = TRUE])

C64Emulator_start(e) ==
    IF e.m.running THEN e
    ELSE C64Emulator_runFrame(IF ~e.k.basicReady
                  THEN C64Emulator_setupBASICInterpreter([e EXCEPT !.m.running = TRUE])
                  ELSE [e EXCEPT !.m.running = TRUE])

C64Emulator_stop(e) == [e EXCEPT !.m.running = FALSE]

C64Emulator_pause(e) == C64Emulator_stop(e)

\* n calls of this.vic.cycle(); a call throws, which ends the loop, when
\* cycle is not a function.
RECURSIVE VIC2_cycles(_, _)
VIC2_cycles(v, n) ==
    IF n = 0 \/ v.cycle # "function" THEN v ELSE VIC2_cycles(VIC2_cycle(v), n - 1)

\* The loop body with a catch clause that leaves this.running alone: its
\* break, which ends the loop, is the frame's cycle count set to its limit.
LoopBody_KeepsRunning(e, r) ==
    IF r.m.vic.cycle = "function"
    THEN [m |-> [r.m EXCEPT !.vic = VIC2_cycles(r.m.vic, r.cycles),
                            !.cia1 = CIA_cycle(r.m.cia1, r.cycles),
                            !.cia2 = CIA_cycle(r.m.cia2, r.cycles),
                            !.sid = SID_cycle(r.m.sid, r.cycles)],
          k |-> [e.k EXCEPT !.cycles = @ + r.cycles,
                            !.tick = [n |-> r.cycles, vic |-> r.cycles,
                                      cia1 |-> <<r.cycles>>, cia2 |-> <<r.cycles>>,
                                      sid |-> <<r.cycles>>, error |-> FALSE],
                            !.steps = @ + 1,
                            !.stepCycles = @ + r.cycles,
                            !.vicCycles = @ + r.cycles]]
    ELSE [m |-> r.m,
          k |-> [e.k EXCEPT !.cycles = e.k.cyclesPerFrame,
                            !.tick = [n |-> r.cycles, vic |-> 0,
                                      cia1 |-> <<>>, cia2 |-> <<>>,
                                      sid |-> <<>>, error |-> TRUE],
                            !.steps = @ + 1,
                            !.stepCycles = @ + r.cycles,
                            !.errors = @ + 1]]

\* One iteration of the loop of runFrame after step() returned r.  Calling
\* vic.cycle when it is not a function throws a TypeError, which the catch
\* clause reports with console.error before it stops the clock.
LoopBody(e, r) ==
    IF r.m.vic.cycle = "function"
    THEN [m |-> [r.m EXCEPT !.vic = VIC2_cycles(r.m.vic, r.cycles),
                            !.cia1 = CIA_cycle(r.m.cia1, r.cycles),
                            !.cia2 = CIA_cycle(r.m.cia2, r.cycles),
                            !.sid = SID_cycle(r.m.sid, r.cycles)],
          k |-> [e.k EXCEPT !.cycles = @ + r.cycles,
                            !.tick = [n |-> r.cycles, vic |-> r.cycles,
                                      cia1 |-> <<r.cycles>>, cia2 |-> <<r.cycles>>,
                                      sid |-> <<r.cycles>>, error |-> FALSE],
                            !.steps = @ + 1,
                            !.stepCycles = @ + r.cycles,
                            !.vicCycles = @ + r.cycles]]
    ELSE [m |-> [r.m EXCEPT !.running = FALSE],
          k |-> [e.k EXCEPT !.tick = [n |-> r.cycles, vic |-> 0,
                                      cia1 |-> <<>>, cia2 |-> <<>>,
                                      sid |-> <<>>, error |-> TRUE],
                            !.steps = @ + 1,
                            !.stepCycles = @ + r.cycles,
                            !.errors = @ + 1]]

\* while (cycles < this.cyclesPerFrame && this.running)
LoopCondition(e) == e.k.cycles < e.k.cyclesPerFrame /\ e.m.running

\* runFrame() after its loop: the frame counted, the next frame scheduled.
FrameEpilogue(e) ==
    [e EXCEPT !.k.frameCount = @ + 1,
              !.k.timers = IF e.m.running THEN @ + 1 ELSE @,
              !.k.pc = "idle"]

(***************************************************************************)
(* SpecMem: the address space driven through its public operations.        *)
(***************************************************************************)
\* $0001, plain RAM, the three switched windows ($D000 is also the VIC
\* handler window), color memory and the unclaimed I/O gap at $DE00.
MemAddrs == {1, 2, 40960, 53248, 55296, 56832, 57344}

\* Every combination of LORAM, HIRAM and CHAREN.
BankVals == {48, 49, 50, 51, 52, 53, 54, 55}

DataVals == {90, 165}

ValsFor(a) == IF a = 1 THEN BankVals ELSE DataVals

Write(a, v) ==
    LET m == Machine(0)
    IN  Len(hist) < MaxOps /\ Commit(m, Memory_write(m, a, v), OpRec("write", a, v, 0, {}))

Read(a) ==
    \E rnd \in RandomBytes :
        LET m == Machine(rnd)
        IN  Len(hist) < MaxOps /\ Commit(m, m, OpRec("read", a, 0, Memory_read(m, a), {}))

Write16(a, v) ==
    LET m == Machine(0)
    IN  Len(hist) < MaxOps /\ Commit(m, Memory_write16(m, a, v), OpRec("write16", a, v, 0, {}))

Load(a, data) ==
    LET m == Machine(0)
    IN  Len(hist) < MaxOps /\ Commit(m, Memory_load(m, a, data), OpRec("load", a, Len(data), 0, {}))

Clear ==
    LET m == Machine(0)
    IN  Len(hist) < MaxOps /\ Commit(m, Memory_clear(m), OpRec("clear", 0, 0, 0, {}))

ConnectComponents ==
    LET m == Machine(0)
    IN  Len(hist) < MaxOps /\ Commit(m, [m EXCEPT !.memory = connectComponents(m.memory)],
               OpRec("connectComponents", 0, 0, 0, {}))

\* A Memory with its ROMs loaded, used on its own or wired into the machine
\* by init().
InitMem ==
    \E mem \in {loadROMs(Memory_new, RomImage),
                connectComponents(loadROMs(Memory_new, RomImage))} :
        Constructed(mem)

NextMem ==
    \/ \E a \in MemAddrs : \E v \in ValsFor(a) : Write(a, v)
    \/ \E a \in MemAddrs : Read(a)
    \/ Write16(49151, 43981)
    \/ Load(65534, <<18, 52, 86>>)
    \/ Clear
    \/ ConnectComponents

SpecMem == InitMem /\ [][NextMem]_vars

(***************************************************************************)
(* SpecCpu: the processor driven through reset(), step(), irq(), nmi().    *)
(* It starts from the machine after init() with a three-byte program       *)
(* loaded and the processor in a state that running code can produce:      *)
(* every register value can be loaded (LDA/LDX/LDY/TXS), every program     *)
(* counter jumped to and every flag combination pulled by RTI.             *)
(***************************************************************************)
\* Opcodes without an operation in the table: $00, $69 (ADC #), $E9 (SBC #)
\* and $FF.
IllegalSamples == {0, 105, 233, 255}

TestOpcodes == DefinedOpcodes \cup IllegalSamples

\* Operand bytes: $0200, $FFFF (wraps in read16 and in indexing; $FF is a
\* negative value and a backward branch), $017F (the stack page; $7F is a
\* positive value and a forward branch) and $01FF (the last byte of a page,
\* followed by the program at $0200).
Operands == {<<0, 2>>, <<255, 255>>, <<127, 1>>, <<255, 1>>}

\* Load addresses: ordinary RAM, and the last byte of the address space so
\* that the operands wrap to $0000/$0001.
Origins == {512, 65535}

\* A, X, Y, SP.
Registers == {<<0, 0, 0, 253>>, <<128, 255, 1, 0>>, <<127, 1, 255, 1>>}

\* Status bytes: all flags clear, all set, all but I and B set.
StatusBytes == {0, 255, 203}

Reset ==
    LET m == Machine(0)
    IN  Len(hist) < MaxCpuOps /\ Commit(m, MOS6502_reset(m), OpRec("reset", 0, 0, 0, {}))

\* The machine after step() returned r, with the opcode that was fetched.
Stepped(m, r) ==
    Commit(m, r.m, OpRec("step", m.cpu.PC, Memory_read(m, m.cpu.PC), r.cycles, r.ea))

Step ==
    \E rnd \in RandomBytes :
        Len(hist) < MaxCpuOps /\ Stepped(Machine(rnd), MOS6502_step(Machine(rnd)))

Irq ==
    LET m == Machine(0)
    IN  Len(hist) < MaxCpuOps /\ Commit(m, MOS6502_irq(m), OpRec("irq", 0, 0, 0, {}))

Nmi ==
    LET m == Machine(0)
    IN  Len(hist) < MaxCpuOps /\ Commit(m, MOS6502_nmi(m), OpRec("nmi", 0, 0, 0, {}))

InitCpu ==
    \E op \in TestOpcodes, b \in Operands, org \in Origins,
       r \in Registers, p \in StatusBytes, run \in BOOLEAN :
        LET m0 == [memory |-> connectComponents(loadROMs(Memory_new, RomImage)),
                   cpu |-> MOS6502_new, vic |-> VIC2_new, sid |-> SID_new,
                   cia1 |-> CIA_new, cia2 |-> CIA_new, running |-> run, random |-> 0]
            m1 == Memory_load(m0, org, <<op, b[1], b[2]>>)
            c1 == [setP(m1.cpu, p) EXCEPT !.A = r[1], !.X = r[2], !.Y = r[3],
                                          !.SP = r[4], !.PC = org]
        IN  /\ memory = m1.memory
            /\ cpu = c1
            /\ vic = m1.vic
            /\ sid = m1.sid
            /\ cia1 = m1.cia1
            /\ cia2 = m1.cia2
            /\ running = run
            /\ hist = <<>>
            /\ pre = [m1 EXCEPT !.cpu = c1]
            /\ clock = C64Emulator_new(TRUE)

NextCpu ==
    \/ Reset
    \/ Step
    \/ Irq
    \/ Nmi

SpecCpu == InitCpu /\ [][NextCpu]_vars

(***************************************************************************)
(* SpecFlags: the status-byte packing driven through getP() and setP().    *)
(* The processor starts with any of the 128 combinations of the seven      *)
(* flags, each of which RTI can produce.                                   *)
(***************************************************************************)
\* Bytes handed to setP() besides the one getP() just returned.
FlagBytes == {0, 223}

GetP ==
    LET m == Machine(0)
    IN  Len(hist) < MaxFlagOps /\ Commit(m, m, OpRec("getP", 0, 0, getP(m.cpu), {}))

SetP(value) ==
    LET m == Machine(0)
    IN  /\ Len(hist) < MaxFlagOps
        /\ Commit(m, [m EXCEPT !.cpu = setP(m.cpu, value)], OpRec("setP", 0, value, 0, {}))

InitFlags ==
    \E n \in BOOLEAN, v \in BOOLEAN, b \in BOOLEAN, d \in BOOLEAN,
       i \in BOOLEAN, z \in BOOLEAN, c \in BOOLEAN :
        /\ memory = connectComponents(loadROMs(Memory_new, RomImage))
        /\ cpu = [MOS6502_new EXCEPT !.N = n, !.V = v, !.B = b, !.D = d,
                                     !.I = i, !.Z = z, !.C = c]
        /\ vic = VIC2_new
        /\ sid = SID_new
        /\ cia1 = CIA_new
        /\ cia2 = CIA_new
        /\ running = FALSE
        /\ hist = <<>>
        /\ pre = Machine(0)
        /\ clock = C64Emulator_new(TRUE)

NextFlags ==
    \/ GetP
    \/ \E value \in FlagBytes : SetP(value)
    \/ Len(hist) >= 1 /\ hist[Len(hist)].op = "getP" /\ SetP(hist[Len(hist)].ret)

SpecFlags == InitFlags /\ [][NextFlags]_vars

(***************************************************************************)
(* SpecClock: the machine driven through start(), run(), stop(), pause()   *)
(* and reset(), with the frame loop of runFrame taken one iteration at a   *)
(* time.  JavaScript runs a callback to completion: the public operations  *)
(* and the timer callbacks happen only while no runFrame is in progress.   *)
(***************************************************************************)
\* A loop of 23 cycles in six instructions at $0002, reached from PC = 0
\* over two empty cells: INX, TXA, STA $0400, JSR $000D, JMP $0002, and
\* RTS at $000D.
LoopProgram == <<232, 138, 141, 0, 4, 32, 13, 0, 76, 2, 0, 96>>

Emu(rnd) == [m |-> Machine(rnd), k |-> clock]

\* The emulator becomes e2 by the action named op.
ClockCommit(e2, op) ==
    /\ memory' = e2.m.memory
    /\ cpu' = e2.m.cpu
    /\ vic' = e2.m.vic
    /\ sid' = e2.m.sid
    /\ cia1' = e2.m.cia1
    /\ cia2' = e2.m.cia2
    /\ running' = e2.m.running
    /\ hist' = hist
    /\ clock' = [e2.k EXCEPT !.last = op,
                             !.was = [running |-> running, steps |-> clock.steps,
                                      timers |-> clock.timers, frames |-> clock.frames,
                                      frameCount |-> clock.frameCount,
                                      errors |-> clock.errors,
                                      signals |-> clock.signals]]

\* A call of a public operation from outside the frame loop.
Called(e2, op) ==
    /\ clock.pc = "idle"
    /\ clock.ops < MaxClockOps
    /\ clock.frames <= MaxFrames
    /\ ClockCommit([e2 EXCEPT !.k.ops = @ + 1], op)
    /\ pre' = Machine(0)

Start == Called(C64Emulator_start(Emu(0)), "start")

Run == Called(C64Emulator_run(Emu(0)), "run")

Stop == Called(C64Emulator_stop(Emu(0)), "stop")

Pause == Called(C64Emulator_pause(Emu(0)), "pause")

ResetMachine == Called(C64Emulator_reset(Emu(0)), "reset")

\* A pending setTimeout(() => this.runFrame()) fires.
TimerFires(e2) ==
    /\ clock.pc = "idle"
    /\ clock.timers > 0
    /\ ~running \/ clock.frames < MaxFrames
    /\ ClockCommit(e2, "timer")
    /\ pre' = Machine(0)

FrameTimer == TimerFires(C64Emulator_runFrame([Emu(0) EXCEPT !.k.timers = @ - 1]))

\* The callback scheduled by reset() fires.
BasicTimer ==
    /\ clock.pc = "idle"
    /\ clock.basicTimers > 0
    /\ ClockCommit(C64Emulator_setupBASICInterpreter([Emu(0) EXCEPT !.k.basicTimers = @ - 1]),
                   "basicTimer")
    /\ pre' = Machine(0)

Iterated(e2) == ClockCommit(e2, "tick") /\ pre' = pre

Tick ==
    /\ clock.pc = "loop"
    /\ LoopCondition(Emu(0))
    /\ \E rnd \in RandomBytes : Iterated(LoopBody(Emu(rnd), MOS6502_step(Machine(rnd))))

FrameEnd ==
    /\ clock.pc = "loop"
    /\ ~LoopCondition(Emu(0))
    /\ ClockCommit(FrameEpilogue(Emu(0)), "frameEnd")
    /\ pre' = pre

\* A machine just constructed, one with a program stored by memory.load(),
\* and one after init(), for each video standard.
InitClock ==
    \E palMode \in BOOLEAN, setup \in {"new", "program", "init"} :
        LET e0 == [m |-> [memory |-> Memory_new, cpu |-> MOS6502_new, vic |-> VIC2_new,
                          sid |-> SID_new, cia1 |-> CIA_new, cia2 |-> CIA_new,
                          running |-> FALSE, random |-> 0],
                   k |-> C64Emulator_new(palMode)]
            e1 == IF setup = "program" THEN [e0 EXCEPT !.m = Memory_load(e0.m, 2, LoopProgram)]
                  ELSE IF setup = "init" THEN C64Emulator_init(e0)
                  ELSE e0
        IN  /\ memory = e1.m.memory
            /\ cpu = e1.m.cpu
            /\ vic = e1.m.vic
            /\ sid = e1.m.sid
            /\ cia1 = e1.m.cia1
            /\ cia2 = e1.m.cia2
            /\ running = FALSE
            /\ hist = <<>>
            /\ pre = e1.m
            /\ clock = e1.k

NextClock ==
    \/ Start
    \/ Run
    \/ Stop
    \/ Pause
    \/ ResetMachine
    \/ FrameTimer
    \/ BasicTimer
    \/ Tick
    \/ FrameEnd

SpecClock == InitClock /\ [][NextClock]_vars

(***************************************************************************)
(* SpecChips: the video chip and the first timer chip driven through       *)
(* their own methods, with the processor their callbacks are wired to.     *)
(***************************************************************************)
\* connectComponents(): this.vic.onIRQ = () => this.cpu.irq(), likewise
\* cia1.onIRQ, and cia2.onNMI = () => this.cpu.nmi().
VIC2_onIRQ(m) == MOS6502_irq(m)

CIA1_onIRQ(m) == MOS6502_irq(m)

CIA2_onNMI(m) == MOS6502_nmi(m)

\* Raster positions around the end of a line and the end of the frame.
RasterLines == {0, 311}

LineCycles == {0, 62}

\* $D012 (raster compare) and $D01A (interrupt enable).
VicRegs == {18, 26}

\* $DC0D (interrupt control) and $DC0E (timer A control).
CiaRegs == {13, 14}

ChipVals == {1, 129}

VicWrite(reg, value) ==
    LET m == Machine(0)
    IN  /\ Len(hist) < MaxChipOps
        /\ Commit(m, [m EXCEPT !.vic = VIC2_write(m.vic, reg, value)],
                  OpRec("vic.write", reg, value, 0, {}))

\* vic.cycle(); ret is -1 when the call throws because cycle is no longer
\* a function.
VicCycle ==
    LET m == Machine(0)
    IN  /\ Len(hist) < MaxChipOps
        /\ IF m.vic.cycle = "function"
           THEN Commit(m, [m EXCEPT !.vic = VIC2_cycle(m.vic)], OpRec("vic.cycle", 0, 0, 0, {}))
           ELSE Commit(m, m, OpRec("vic.cycle", 0, 0, -1, {}))

\* A loop of 63 calls of vic.cycle(), one PAL line; the first call throws
\* (ret = -1) when cycle is no longer a function.
VicLine ==
    LET m == Machine(0)
    IN  /\ Len(hist) < MaxChipOps
        /\ IF m.vic.cycle = "function"
           THEN Commit(m, [m EXCEPT !.vic = VIC2_cycles(m.vic, 63)],
                       OpRec("vic.line", 0, 63, 0, {}))
           ELSE Commit(m, m, OpRec("vic.line", 0, 63, -1, {}))

VicReset ==
    LET m == Machine(0)
    IN  /\ Len(hist) < MaxChipOps
        /\ Commit(m, [m EXCEPT !.vic = VIC2_reset(m.vic)], OpRec("vic.reset", 0, 0, 0, {}))

CiaWrite(reg, value) ==
    LET m == Machine(0)
    IN  /\ Len(hist) < MaxChipOps
        /\ Commit(m, [m EXCEPT !.cia1 = CIA_write(m.cia1, reg, value)],
                  OpRec("cia1.write", reg, value, 0, {}))

CiaCycle(cycles) ==
    LET m == Machine(0)
    IN  /\ Len(hist) < MaxChipOps
        /\ Commit(m, [m EXCEPT !.cia1 = CIA_cycle(m.cia1, cycles)],
                  OpRec("cia1.cycle", 0, cycles, 0, {}))

\* The chips at a raster position cycle() reaches, the processor with the
\* interrupt-disable flag either way.
InitChips ==
    \E y \in RasterLines, c \in LineCycles, i \in BOOLEAN :
        /\ memory = Memory_new
        /\ cpu = [MOS6502_new EXCEPT !.I = i, !.PC = 49152]
        /\ vic = [VIC2_new EXCEPT !.rasterY = y, !.cycleCounter = c]
        /\ sid = SID_new
        /\ cia1 = CIA_new
        /\ cia2 = CIA_new
        /\ running = FALSE
        /\ hist = <<>>
        /\ pre = Machine(0)
        /\ clock = C64Emulator_new(TRUE)

NextChips ==
    \/ \E reg \in VicRegs, value \in {0, 1} : VicWrite(reg, value)
    \/ VicCycle
    \/ VicLine
    \/ VicReset
    \/ \E reg \in CiaRegs, value \in ChipVals : CiaWrite(reg, value)
    \/ CiaCycle(2)

SpecChips == InitChips /\ [][NextChips]_vars

(***************************************************************************)
(* SpecRegs: the registers of the video chip, the first timer chip and the *)
(* audio chip, written, read and reset through the methods of the chips.   *)
(***************************************************************************)
Chips == {"vic", "cia1", "sid"}

\* Registers of each chip, some of them addressed one or two array sizes up
\* (VIC2: $11, $12, $20, $12 + 64, $20 + 64; CIA: $0D, $0E, $0D + 16;
\* SID: $18, $19, $18 + 32).
RegAddrs == [vic |-> {17, 18, 32, 82, 96}, cia1 |-> {13, 14, 29}, sid |-> {24, 25, 56}]

RegVals == {90, 165}

WriteOp == [vic |-> "vic.write", cia1 |-> "cia1.write", sid |-> "sid.write"]
ReadOp == [vic |-> "vic.read", cia1 |-> "cia1.read", sid |-> "sid.read"]
ResetOp == [vic |-> "vic.reset", cia1 |-> "cia1.reset", sid |-> "sid.reset"]

Chip_write(m, chip, addr, value) ==
    IF chip = "vic" THEN [m EXCEPT !.vic = VIC2_write(m.vic, addr, value)]
    ELSE IF chip = "cia1" THEN [m EXCEPT !.cia1 = CIA_write(m.cia1, addr, value)]
    ELSE [m EXCEPT !.sid = SID_write(m.sid, addr, value)]

Chip_read(m, chip, addr) ==
    IF chip = "vic" THEN VIC2_read(m.vic, addr)
    ELSE IF chip = "cia1" THEN CIA_read(m.cia1, addr)
    ELSE SID_read(m.sid, addr, m.random)

Chip_reset(m, chip) ==
    IF chip = "vic" THEN [m EXCEPT !.vic = VIC2_reset(m.vic)]
    ELSE IF chip = "cia1" THEN [m EXCEPT !.cia1 = CIA_reset(m.cia1)]
    ELSE [m EXCEPT !.sid = SID_reset(m.sid)]

RegWrite(chip, addr, value) ==
    LET m == Machine(0)
    IN  /\ Len(hist) < MaxRegOps
        /\ Commit(m, Chip_write(m, chip, addr, value), OpRec(WriteOp[chip], addr, value, 0, {}))

RegRead(chip, addr) ==
    \E rnd \in RandomBytes :
        LET m == Machine(rnd)
        IN  /\ Len(hist) < MaxRegOps
            /\ Commit(m, m, OpRec(ReadOp[chip], addr, 0, Chip_read(m, chip, addr), {}))

RegReset(chip) ==
    LET m == Machine(0)
    IN  /\ Len(hist) < MaxRegOps
        /\ Commit(m, Chip_reset(m, chip), OpRec(ResetOp[chip], 0, 0, 0, {}))

\* The chips as constructed, the video chip at a raster position cycle()
\* reaches.
InitRegs ==
    \E y \in RasterLines, c \in LineCycles :
        /\ memory = Memory_new
        /\ cpu = MOS6502_new
        /\ vic = [VIC2_new EXCEPT !.rasterY = y, !.cycleCounter = c]
        /\ sid = SID_new
        /\ cia1 = CIA_new
        /\ cia2 = CIA_new
        /\ running = FALSE
        /\ hist = <<>>
        /\ pre = Machine(0)
        /\ clock = C64Emulator_new(TRUE)

NextRegs ==
    \/ \E chip \in Chips : \E addr \in RegAddrs[chip], value \in RegVals :
           RegWrite(chip, addr, value)
    \/ \E chip \in Chips : \E addr \in RegAddrs[chip] : RegRead(chip, addr)
    \/ \E chip \in Chips : RegReset(chip)

SpecRegs == InitRegs /\ [][NextRegs]_vars

(***************************************************************************)
(* SpecReset: a machine with code of its own in the RAM under the KERNAL   *)
(* ROM, driven through the machine reset, the processor reset and step().  *)
(***************************************************************************)
\* INX, TXA, JMP $E000: three instructions at $E000.
CustomLoop == <<232, 138, 76, 0, 224>>

\* The reset vector $FFFC/$FFFD pointing at $E000.
CustomVector == <<0, 224>>

\* $0001 as init() leaves it, and with HIRAM clear: RAM at $E000-$FFFF.
PortVals == {55, 53}

\* C64Emulator.reset() on a machine that is not running: the timing
\* fields stay as they are (frameCount is 0, no callback is scheduled).
EmulatorReset ==
    LET m == Machine(0)
    IN  /\ Len(hist) < MaxResetOps
        /\ Commit(m, C64Emulator_reset([m |-> m, k |-> clock]).m,
                  OpRec("emulator.reset", 0, 0, 0, {}))

CpuReset ==
    LET m == Machine(0)
    IN  /\ Len(hist) < MaxResetOps
        /\ Commit(m, MOS6502_reset(m), OpRec("cpu.reset", 0, 0, 0, {}))

CpuStep ==
    \E rnd \in RandomBytes :
        Len(hist) < MaxResetOps /\ Stepped(Machine(rnd), MOS6502_step(Machine(rnd)))

\* memory.write(1, port), then the loop and the vector stored with
\* memory.load(), before anything else is done to the machine.
StoreCustomCode(port) ==
    LET m == Machine(0)
    IN  /\ hist = <<>>
        /\ Commit(m, Memory_load(Memory_load(Memory_write(m, 1, port), 57344, CustomLoop),
                                 65532, CustomVector),
                  OpRec("store", 57344, port, 0, {}))

\* The machine after init().
InitReset ==
    LET e0 == C64Emulator_init(
                  [m |-> [memory |-> Memory_new, cpu |-> MOS6502_new, vic |-> VIC2_new,
                          sid |-> SID_new, cia1 |-> CIA_new, cia2 |-> CIA_new,
                          running |-> FALSE, random |-> 0],
                   k |-> C64Emulator_new(TRUE)])
    IN  /\ memory = e0.m.memory
        /\ cpu = e0.m.cpu
        /\ vic = e0.m.vic
        /\ sid = e0.m.sid
        /\ cia1 = e0.m.cia1
        /\ cia2 = e0.m.cia2
        /\ running = FALSE
        /\ hist = <<>>
        /\ pre = e0.m
        /\ clock = e0.k

NextReset ==
    \/ \E port \in PortVals : StoreCustomCode(port)
    \/ EmulatorReset
    \/ CpuReset
    \/ CpuStep

SpecReset == InitReset /\ [][NextReset]_vars

(***************************************************************************)
(* SpecPrg: program images loaded with loadPRG() into a machine whose      *)
(* ROMs are loaded and whose chips are connected.                          *)
(***************************************************************************)
\* data[i] of a JavaScript array, undefined (0 under |) past its end.
ByteOf(data, i) == IF i + 1 <= Len(data) THEN data[i + 1] ELSE 0

\* loadPRG(data, address) with the end pointer computed from the whole
\* length of the image, header included.
C64Emulator_loadPRG_EndWithHeader(m, data, address) ==
    LET loadAddr == IF address # 0 THEN address
                    ELSE Or(ByteOf(data, 0), Shl(ByteOf(data, 1), 8))
        endAddr == loadAddr + Len(data)
    IN  IF loadAddr = 2049
        THEN Memory_write(
                 Memory_write(
                     Memory_write(
                         Memory_write(Memory_load(m, loadAddr, SubSeq(data, 3, Len(data))),
                                      45, And(endAddr, 255)),
                         46, Shr(endAddr, 8)),
                     47, And(endAddr, 255)),
                 48, Shr(endAddr, 8))
        ELSE Memory_load(m, loadAddr, SubSeq(data, 3, Len(data)))

\* loadPRG(data, address); address is 0 for the default null.  The loop
\* writes data[i] to loadAddr + i - 2 for i = 2 .. data.length - 1.
C64Emulator_loadPRG(m, data, address) ==
    LET loadAddr == IF address # 0 THEN address
                    ELSE Or(ByteOf(data, 0), Shl(ByteOf(data, 1), 8))
        endAddr == loadAddr + Len(data) - 2
    IN  IF loadAddr = 2049
        THEN Memory_write(
                 Memory_write(
                     Memory_write(
                         Memory_write(Memory_load(m, loadAddr, SubSeq(data, 3, Len(data))),
                                      45, And(endAddr, 255)),
                         46, Shr(endAddr, 8)),
                     47, And(endAddr, 255)),
                 48, Shr(endAddr, 8))
        ELSE Memory_load(m, loadAddr, SubSeq(data, 3, Len(data)))

\* Load addresses $0801, $0802, $C000 and $FFFF as image headers.
PrgHeaders == {<<1, 8>>, <<2, 8>>, <<0, 192>>, <<255, 255>>}

PrgPayloads == {<<>>, <<7>>, <<165, 90, 7>>}

\* The pointer cells $2D-$30 and a cell of the BASIC area.
PrgCells == {45, 46, 47, 48, 2050}

LoadPRG(data) ==
    LET m == Machine(0)
    IN  /\ Len(hist) < MaxPrgOps
        /\ Commit(m, C64Emulator_loadPRG(m, data, 0), OpRec("loadPRG", 0, data, 0, {}))

PrgWrite(a, v) ==
    LET m == Machine(0)
    IN  /\ Len(hist) < MaxPrgOps
        /\ Commit(m, Memory_write(m, a, v), OpRec("write", a, v, 0, {}))

InitPrg == Constructed(connectComponents(loadROMs(Memory_new, RomImage)))

NextPrg ==
    \/ \E h \in PrgHeaders, d \in PrgPayloads : LoadPRG(h \o d)
    \/ \E a \in PrgCells : PrgWrite(a, 201)

SpecPrg == InitPrg /\ [][NextPrg]_vars

(***************************************************************************)
(* ROMLoader and C64Emulator.loadROMs().  A Uint8Array is a record of its  *)
(* length and its nonzero cells.                                           *)
(***************************************************************************)
Min(a, b) == IF a < b THEN a ELSE b

NewImage(n) == [length |-> n, cells |-> Empty]

\* typedArray.slice(begin, end)
Slice(img, begin, end) ==
    LET lo == Min(begin, img.length)
        hi == Min(end, img.length)
    IN  [length |-> IF hi > lo THEN hi - lo ELSE 0,
         cells |-> [i \in {j - lo : j \in {k \in DOMAIN img.cells : k >= lo /\ k < hi}}
                       |-> img.cells[i + lo]]]

\* image[base + i] = bytes[i + 1] for every byte of the sequence
Poke(img, base, bytes) ==
    [img EXCEPT !.cells =
        [a \in (DOMAIN img.cells \cup {base + i - 1 : i \in {j \in 1..Len(bytes) : bytes[j] # 0}})
                \ {base + i - 1 : i \in {j \in 1..Len(bytes) : bytes[j] = 0}}
            |-> IF a >= base /\ a < base + Len(bytes) THEN bytes[a - base + 1] ELSE img.cells[a]]]

\* The reset routine with its last jump going back to its first instruction.
resetRoutine_Restart ==
    <<120, 216, 162, 255, 154, 169, 55, 133, 1, 169, 47, 133, 0,
      169, 32, 162, 0,
      157, 0, 4, 157, 0, 5, 157, 0, 6, 157, 0, 7, 232, 208, 241,
      169, 14, 162, 0,
      157, 0, 216, 157, 0, 217, 157, 0, 218, 157, 0, 219, 232, 208, 241,
      169, 82, 141, 0, 4, 169, 69, 141, 1, 4, 169, 65, 141, 2, 4,
      169, 68, 141, 3, 4, 169, 89, 141, 4, 4, 169, 46, 141, 5, 4,
      76, 0, 252>>

resetRoutine ==
    <<120, 216, 162, 255, 154, 169, 55, 133, 1, 169, 47, 133, 0,
      169, 32, 162, 0,
      157, 0, 4, 157, 0, 5, 157, 0, 6, 157, 0, 7, 232, 208, 241,
      169, 14, 162, 0,
      157, 0, 216, 157, 0, 217, 157, 0, 218, 157, 0, 219, 232, 208, 241,
      169, 82, 141, 0, 4, 169, 69, 141, 1, 4, 169, 65, 141, 2, 4,
      169, 68, 141, 3, 4, 169, 89, 141, 4, 4, 169, 46, 141, 5, 4,
      76, 77, 252>>

basicFont ==
    (1 :> <<24, 60, 102, 126, 102, 102, 102, 0>>) @@
    (2 :> <<124, 102, 102, 124, 102, 102, 124, 0>>) @@
    (3 :> <<60, 102, 96, 96, 96, 102, 60, 0>>) @@
    (4 :> <<120, 108, 102, 102, 102, 108, 120, 0>>) @@
    (5 :> <<126, 96, 96, 120, 96, 96, 126, 0>>) @@
    (32 :> <<0, 0, 0, 0, 0, 0, 0, 0>>) @@
    (46 :> <<0, 0, 0, 0, 0, 24, 24, 0>>)

petsciiMap ==
    (32 :> 32) @@ (46 :> 46) @@ (65 :> 1) @@ (66 :> 2) @@ (67 :> 3) @@
    (68 :> 4) @@ (69 :> 5) @@ (82 :> 1) @@ (89 :> 1)

defaultPattern == <<126, 126, 126, 126, 126, 126, 126, 0>>

\* The bytes of character c after the first loop of generateCharset().
Mapped(c) == IF c \in DOMAIN petsciiMap THEN basicFont[petsciiMap[c]] ELSE basicFont[32]

\* generateCharset(): a character whose first two bytes are zero after the
\* first loop gets the default pattern.
ROMLoader_generateCharset ==
    LET byte(a) == IF Mapped(a \div 8)[1] = 0 /\ Mapped(a \div 8)[2] = 0
                   THEN defaultPattern[(a % 8) + 1]
                   ELSE Mapped(a \div 8)[(a % 8) + 1]
    IN  [length |-> 4096,
         cells |-> [a \in {b \in 0..4095 : byte(b) # 0} |-> byte(a)]]

ROMLoader_getMinimalTestROMs ==
    [kernal |-> Poke(Poke(Poke(Poke(Poke(NewImage(8192),
                    8186, <<0, 254>>), 8188, <<0, 252>>), 8190, <<0, 255>>),
                    7168, resetRoutine), 7936, <<64>>),
     basic |-> NewImage(16384),
     charset |-> ROMLoader_generateCharset]

\* loadFromFiles(): responses is the pair of fetch results for mega65.rom
\* and chargen.rom; a fetch is rejected, or answers with ok or not ok and
\* a body.  The result is the ROM set, or threw.
ROMLoader_loadFromFiles(responses) ==
    IF \E f \in DOMAIN responses : responses[f].status # "ok"
    THEN [threw |-> TRUE]
    ELSE [threw |-> FALSE,
          roms |-> [basic |-> Slice(responses.mega.body, 0, 16384),
                    kernal |-> Slice(responses.mega.body, 24576, 32768),
                    charset |-> responses.char.body]]

ROMLoader_loadMEGA65(responses) ==
    IF ROMLoader_loadFromFiles(responses).threw
    THEN ROMLoader_getMinimalTestROMs
    ELSE ROMLoader_loadFromFiles(responses).roms

\* The three loops of loadROMs(): stores past the end of memory.rom and
\* memory.charset are dropped, BASIC is copied after the KERNAL.
CopyInto(arr, size, base, img) ==
    [a \in {b \in DOMAIN arr : b < base \/ b >= base + img.length}
            \cup {base + i : i \in {j \in DOMAIN img.cells : base + j < size}}
        |-> IF a >= base /\ a < base + img.length THEN img.cells[a - base] ELSE arr[a]]

C64Emulator_loadROMs(mem, roms) ==
    [mem EXCEPT !.rom = CopyInto(CopyInto(mem.rom, 65536, 57344, roms.kernal),
                                 65536, 40960, roms.basic),
                !.charset = CopyInto(mem.charset, 4096, 0, roms.charset)]

(***************************************************************************)
(* SpecRom: the ROM load step of init() under every outcome of the two     *)
(* fetches, followed by processor resets and steps on the loaded ROMs.     *)
(***************************************************************************)
\* Lengths of the file mega65.rom: empty, short, one byte short, the
\* 32 Ki layout, longer.
MegaLengths == {0, 100, 32767, 32768, 40000}

\* Lengths of the file chargen.rom.
CharLengths == {0, 10, 4096, 5000}

\* A file of n bytes: marked bytes at a few offsets, zero elsewhere.
FileOf(n, marks) == [length |-> n, cells |-> [a \in {b \in DOMAIN marks : b < n} |-> marks[a]]]

MegaMarks == (0 :> 148) @@ (99 :> 7) @@ (16383 :> 227) @@ (24576 :> 234) @@
             (32764 :> 0) @@ (32765 :> 224) @@ (32767 :> 255) @@ (39999 :> 9)

CharMarks == (0 :> 60) @@ (9 :> 102) @@ (4095 :> 129) @@ (4999 :> 3)

Responses ==
    {[mega |-> [status |-> sm, body |-> FileOf(lm, MegaMarks)],
      char |-> [status |-> sc, body |-> FileOf(lc, CharMarks)]] :
        sm \in {"ok"}, lm \in MegaLengths, sc \in {"ok"}, lc \in CharLengths}
    \cup
    {[mega |-> [status |-> sm, body |-> NewImage(0)],
      char |-> [status |-> sc, body |-> NewImage(0)]] :
        sm \in {"ok", "notok", "rejected"}, sc \in {"ok", "notok", "rejected"}}

\* await this.loadROMs() in init(); loadMEGA65() always yields a ROM set,
\* so the catch of loadROMs() is not entered.
LoadROMs(responses) ==
    LET m == Machine(0)
    IN  /\ hist = <<>>
        /\ Commit(m, [m EXCEPT !.memory = connectComponents(
                          C64Emulator_loadROMs(m.memory, ROMLoader_loadMEGA65(responses)))],
                  OpRec("loadROMs", 0, responses, 0, {}))

RomReset ==
    LET m == Machine(0)
    IN  /\ hist # <<>>
        /\ Len(hist) < MaxRomOps
        /\ Commit(m, MOS6502_reset(m), OpRec("cpu.reset", 0, 0, 0, {}))

RomStep ==
    /\ hist # <<>>
    /\ Len(hist) < MaxRomOps
    /\ Stepped(Machine(0), MOS6502_step(Machine(0)))

InitRom == Constructed(Memory_new)

NextRom ==
    \/ \E r \in Responses : LoadROMs(r)
    \/ RomReset
    \/ RomStep

SpecRom == InitRom /\ [][NextRom]_vars

(***************************************************************************)
(* SpecReady: the machine with the minimal ROM set is reset and then the   *)
(* processor is stepped again and again.  Only the latest operation is     *)
(* recorded, and pre stays the machine before the reset.                   *)
(***************************************************************************)
Latest(m, m2, rec) ==
    /\ memory' = m2.memory
    /\ cpu' = m2.cpu
    /\ vic' = m2.vic
    /\ sid' = m2.sid
    /\ cia1' = m2.cia1
    /\ cia2' = m2.cia2
    /\ hist' = <<rec>>
    /\ running' = m2.running
    /\ pre' = pre
    /\ clock' = clock

\* this.reset() on the machine that holds the minimal ROM set.
ReadyReset ==
    LET m == Machine(0)
    IN  /\ hist = <<>>
        /\ Latest(m, C64Emulator_reset([m |-> m, k |-> clock]).m,
                  OpRec("emulator.reset", 0, 0, 0, {}))

\* this.cpu.step()
ReadyStepped(m, r) ==
    Latest(m, r.m, OpRec("step", m.cpu.PC, Memory_read(m, m.cpu.PC), r.cycles, r.ea))

ReadyStep ==
    /\ hist # <<>>
    /\ cpu.cycles < MaxReadyCycles
    /\ ReadyStepped(Machine(0), MOS6502_step(Machine(0)))

\* The minimal ROM set with a blank character ROM: step() reads the
\* character ROM only through $D000-$DFFF, which the reset routine never
\* addresses for reading.
MinimalKernalAndBasic == [ROMLoader_getMinimalTestROMs EXCEPT !.charset = NewImage(4096)]

\* Screen cells left by an earlier program.
StaleCells == {0, 46}

InitReady ==
    \E v \in StaleCells :
        Constructed([connectComponents(C64Emulator_loadROMs(Memory_new, MinimalKernalAndBasic))
                        EXCEPT !.ram = Put(Empty, 1029, v, 0)])

NextReady == ReadyReset \/ ReadyStep

\* step() is called repeatedly: weak fairness of NextReady.  The reset is
\* enabled while nothing has been done and a step while the cycle count is
\* below its bound, so ENABLED <<NextReady>>_vars is written as that
\* condition and WF_vars(NextReady) as its two disjuncts.
SpecReady ==
    /\ InitReady
    /\ [][NextReady]_vars
    /\ \/ []<>(hist # <<>> /\ cpu.cycles >= MaxReadyCycles)
       \/ []<><<NextReady>>_vars

(***************************************************************************)
(* SpecCompare: one step() on CMP #M or CPX #M, for every value of the     *)
(* register and every value of the operand.                                *)
(***************************************************************************)
Bytes == 0..255

\* Bytes at the ends and in the middle of the range, and both neighbours
\* of each.
EdgeBytes == {0, 1, 2, 126, 127, 128, 129, 254, 255}

\* Register and operand: every register value with the edge operands and
\* every operand value with the edge registers.
ComparePairs == (Bytes \X EdgeBytes) \cup (EdgeBytes \X Bytes)

CompareOpcodes == {201, 224}

\* Where the instruction is stored: RAM, and the last two cells of memory
\* with RAM selected at the KERNAL addresses.
CompareOrigins == {49152, 65534}

CompareStep ==
    /\ hist = <<>>
    /\ Stepped(Machine(0), MOS6502_step(Machine(0)))

InitCompare ==
    \E op \in CompareOpcodes, rv \in ComparePairs, org \in CompareOrigins, p \in {0, 255} :
        LET m0 == [memory |-> connectComponents(loadROMs(Memory_new, RomImage)),
                   cpu |-> MOS6502_new, vic |-> VIC2_new, sid |-> SID_new,
                   cia1 |-> CIA_new, cia2 |-> CIA_new, running |-> FALSE, random |-> 0]
            m1 == Memory_load(Memory_write(m0, 1, 53), org, <<op, rv[2]>>)
            c1 == [setP(m1.cpu, p) EXCEPT !.A = IF op = 201 THEN rv[1] ELSE 255 - rv[1],
                                          !.X = IF op = 224 THEN rv[1] ELSE 255 - rv[1],
                                          !.Y = 1, !.SP = 253, !.PC = org]
        IN  /\ memory = m1.memory
            /\ cpu = c1
            /\ vic = m1.vic
            /\ sid = m1.sid
            /\ cia1 = m1.cia1
            /\ cia2 = m1.cia2
            /\ running = FALSE
            /\ hist = <<>>
            /\ pre = [m1 EXCEPT !.cpu = c1]
            /\ clock = C64Emulator_new(TRUE)

NextCompare == CompareStep

SpecCompare == InitCompare /\ [][NextCompare]_vars

(***************************************************************************)
(* SpecCall: a JSR at address p to a subroutine that ends in RTS, stepped  *)
(* instruction by instruction.  pre stays the machine before the JSR.      *)
(***************************************************************************)
\* One operation recorded, pre kept.
Kept(m, m2, rec) ==
    /\ memory' = m2.memory
    /\ cpu' = m2.cpu
    /\ vic' = m2.vic
    /\ sid' = m2.sid
    /\ cia1' = m2.cia1
    /\ cia2' = m2.cia2
    /\ hist' = Append(hist, rec)
    /\ running' = m2.running
    /\ pre' = pre
    /\ clock' = clock

\* Addresses of the JSR: RAM, and the last three bytes of the address
\* space, where the operands or the return address wrap.
CallSites == {512, 65533, 65534, 65535}

\* Subroutines: RTS alone; PHA PLA RTS; PHA PHA PLA PLA RTS.
Subroutines == {<<96>>, <<72, 104, 96>>, <<72, 72, 104, 104, 96>>}

\* Stack pointers: the reset value, and values at which the pushes wrap.
CallStacks == {253, 0, 1, 255}

\* The subroutine is at $3510; the high byte $35 of the operand is also a
\* processor-port value that selects RAM at $E000-$FFFF, which matters
\* when the JSR at $FFFF has its high operand byte at $0001.
CallTarget == Shl(53, 8) + 16

CallStep ==
    LET m == Machine(0)
        r == MOS6502_step(m)
    IN  /\ Len(hist) < MaxCallOps
        /\ Kept(m, r.m, OpRec("step", m.cpu.PC, Memory_read(m, m.cpu.PC), r.cycles, r.ea))

InitCall ==
    \E p \in CallSites, sub \in Subroutines, sp \in CallStacks, a \in {0, 165} :
        LET m0 == [memory |-> connectComponents(loadROMs(Memory_new, RomImage)),
                   cpu |-> MOS6502_new, vic |-> VIC2_new, sid |-> SID_new,
                   cia1 |-> CIA_new, cia2 |-> CIA_new, running |-> FALSE, random |-> 0]
            m1 == Memory_load(Memory_load(Memory_write(m0, 1, 53), CallTarget, sub),
                              p, <<32, 16, 53>>)
            c1 == [m1.cpu EXCEPT !.A = a, !.SP = sp, !.PC = p]
        IN  /\ memory = m1.memory
            /\ cpu = c1
            /\ vic = m1.vic
            /\ sid = m1.sid
            /\ cia1 = m1.cia1
            /\ cia2 = m1.cia2
            /\ running = FALSE
            /\ hist = <<>>
            /\ pre = [m1 EXCEPT !.cpu = c1]
            /\ clock = C64Emulator_new(TRUE)

NextCall == CallStep

SpecCall == InitCall /\ [][NextCall]_vars

(***************************************************************************)
(* SpecInterrupt: irq() or nmi() on a machine whose vectors, in RAM, lead  *)
(* to a handler that ends in RTI; the handler is then stepped.  pre stays  *)
(* the machine at the moment of the interrupt.                             *)
(***************************************************************************)
\* Handlers: RTI alone; PHA PLA RTI; SEC, LDA #0, CLI, RTI.
Handlers == {<<64>>, <<72, 104, 64>>, <<56, 169, 0, 88, 64>>}

\* Status bytes: all flags clear; break and decimal; all but I; all set.
InterruptedStatus == {0, 24, 251, 255}

\* Values of PC when the interrupt arrives.
InterruptedAt == {512, 0, 65535}

\* Where the IRQ and the NMI vector lead: $3510 and $3610.
IrqHandler == Shl(53, 8) + 16
NmiHandler == Shl(54, 8) + 16

IntIrq ==
    LET m == Machine(0)
    IN  /\ hist = <<>>
        /\ Kept(m, MOS6502_irq(m), OpRec("irq", m.cpu.PC, 0, 0, {}))

IntNmi ==
    LET m == Machine(0)
    IN  /\ hist = <<>>
        /\ Kept(m, MOS6502_nmi(m), OpRec("nmi", m.cpu.PC, 0, 0, {}))

IntStep ==
    LET m == Machine(0)
        r == MOS6502_step(m)
    IN  /\ hist # <<>>
        /\ Len(hist) < MaxIntOps
        /\ Kept(m, r.m, OpRec("step", m.cpu.PC, Memory_read(m, m.cpu.PC), r.cycles, r.ea))

InitInterrupt ==
    \E pc \in InterruptedAt, h \in Handlers, sp \in CallStacks, p \in InterruptedStatus :
        \E m1 \in {Memory_load(Memory_write(
                        [memory |-> connectComponents(loadROMs(Memory_new, RomImage)),
                         cpu |-> MOS6502_new, vic |-> VIC2_new, sid |-> SID_new,
                         cia1 |-> CIA_new, cia2 |-> CIA_new, running |-> FALSE,
                         random |-> 0], 1, 53), IrqHandler, h)} :
            \E m2 \in {Memory_write16(Memory_load(m1, NmiHandler, h), 65534, IrqHandler)} :
                LET m3 == Memory_write16(m2, 65530, NmiHandler)
                    c1 == [setP(m3.cpu, p) EXCEPT !.A = 165, !.SP = sp, !.PC = pc]
                IN  /\ memory = m3.memory
                    /\ cpu = c1
                    /\ vic = m3.vic
                    /\ sid = m3.sid
                    /\ cia1 = m3.cia1
                    /\ cia2 = m3.cia2
                    /\ running = FALSE
                    /\ hist = <<>>
                    /\ pre = [m3 EXCEPT !.cpu = c1]
                    /\ clock = C64Emulator_new(TRUE)

NextInterrupt == IntIrq \/ IntNmi \/ IntStep

SpecInterrupt == InitInterrupt /\ [][NextInterrupt]_vars

(***************************************************************************)
(* SpecKeys: forceKeyboardProcess() on a machine whose cia1 carries the    *)
(* pendingKeys queue of the keyboard input, with a keyboard buffer that is *)
(* empty, partly filled, nearly full or full.                              *)
(***************************************************************************)
\* "A", "B" and RETURN.
KeyCodes == {65, 66, 13}

PendingKeys == UNION {[1..n -> KeyCodes] : n \in 0..MaxPending}

\* Values of the buffer length counter at $C6.
BufferCounts == {0, 1, 8, 9, 10}

ForceKeyboardProcess ==
    LET m == Machine(0)
    IN  /\ Len(hist) < MaxKeyOps
        /\ Commit(m, C64Emulator_forceKeyboardProcess(m),
                  OpRec("forceKeyboardProcess", 198, Memory_read(m, 198), 0, {}))

InitKeys ==
    \E keys \in PendingKeys, n \in BufferCounts :
        LET m0 == [memory |-> connectComponents(loadROMs(Memory_new, RomImage)),
                   cpu |-> MOS6502_new, vic |-> VIC2_new, sid |-> SID_new,
                   cia1 |-> [registers |-> Empty, pendingKeys |-> keys],
                   cia2 |-> CIA_new, running |-> FALSE, random |-> 0]
            m1 == Memory_write(m0, 198, n)
        IN  /\ memory = m1.memory
            /\ cpu = m1.cpu
            /\ vic = m1.vic
            /\ sid = m1.sid
            /\ cia1 = m1.cia1
            /\ cia2 = m1.cia2
            /\ running = FALSE
            /\ hist = <<>>
            /\ pre = m1
            /\ clock = C64Emulator_new(TRUE)

NextKeys == ForceKeyboardProcess

SpecKeys == InitKeys /\ [][NextKeys]_vars

(***************************************************************************)
(* SpecBasic: RUN on a stored program of four lines, then the program's    *)
(* lines executed one per timer callback.  hist lists the executed lines.  *)
(***************************************************************************)
\* The line numbers that statements name: two lines of the program and a
\* number past its last line.
Targets == {30, 40, 50}

\* Keywords after THEN; "NUMBER" is a bare line number.
ThenKinds == {"NUMBER", "GOTO", "GOSUB"}

Statements ==
    {Stmt("PRINT", 0), Stmt("END", 0), Stmt("RETURN", 0)}
    \cup {Stmt(kind, t) : kind \in {"GOTO", "GOSUB"}, t \in Targets}
    \cup {IfStmt(c, then, t) : c \in BOOLEAN, then \in ThenKinds, t \in Targets}
    \cup {IfStmt(c, "RETURN", 0) : c \in BOOLEAN}

\* Lines 30 and 40: the body of a subroutine or the rest of the program.
TailStatements ==
    {Stmt("PRINT", 0), Stmt("END", 0), Stmt("RETURN", 0), Stmt("GOTO", 40), Stmt("GOSUB", 40)}

\* The fields of the emulator that setupBASICInterpreter() and the entry
\* of a program create.
BasicFields(program) ==
    [basicProgram |-> program, basicCallStack |-> <<>>, executionContext |-> NoContext,
     currentExecutionLine |-> 0, currentExecutionIndex |-> Undefined,
     printed |-> <<>>, scheduled |-> FALSE, uncaught |-> 0, lines |-> 0,
     executed |-> [index |-> 0, num |-> 0, content |-> Stmt("PRINT", 0),
                   result |-> ResultNull, depthBefore |-> 0, depth |-> 0]]

\* The interpreter becomes k2; an executed line is added to hist.
BasicCommit(k2) ==
    /\ clock' = k2
    /\ hist' = IF k2.lines # clock.lines THEN Append(hist, k2.executed) ELSE hist
    /\ UNCHANGED <<memory, cpu, vic, sid, cia1, cia2, running, pre>>

\* RUN typed on the freshly entered program.
ExecuteRUN ==
    /\ clock.printed = <<>>
    /\ BasicCommit(executeRUN(clock))

\* A pending setTimeout(executeNextLine, 0) fires.
NextLineTimer ==
    /\ clock.scheduled
    /\ clock.lines < MaxBasicLines
    /\ BasicCommit(executeNextLine(clock))

InitBasic ==
    \E s10 \in Statements, s20 \in Statements, s30 \in TailStatements, s40 \in TailStatements :
        /\ memory = connectComponents(loadROMs(Memory_new, RomImage))
        /\ cpu = MOS6502_new
        /\ vic = VIC2_new
        /\ sid = SID_new
        /\ cia1 = CIA_new
        /\ cia2 = CIA_new
        /\ running = FALSE
        /\ hist = <<>>
        /\ pre = Machine(0)
        /\ clock = BasicFields((10 :> s10) @@ (20 :> s20) @@ (30 :> s30) @@ (40 :> s40))
                       @@ [C64Emulator_new(TRUE) EXCEPT !.basicReady = TRUE]

NextBasic == ExecuteRUN \/ NextLineTimer

SpecBasic == InitBasic /\ [][NextBasic]_vars

(***************************************************************************)
(* Vocabulary of the properties.                                           *)
(***************************************************************************)
Bit(v, k) == (v \div (2 ^ k)) % 2

NOps == Len(hist)
LastOp == hist[NOps]
PrevOp == hist[NOps - 1]

InBasicWindow(a) == a >= 40960 /\ a <= 49151
InKernalWindow(a) == a >= 57344 /\ a <= 65535
InIOWindow(a) == a >= 53248 /\ a <= 57343
InColorMemory(a) == a >= 55296 /\ a <= 56319

\* ROM is what the decision table shows at a under configuration cfg.
RomShown(a, cfg) ==
    \/ InBasicWindow(a) /\ Bit(cfg, 0) = 1
    \/ InKernalWindow(a) /\ Bit(cfg, 1) = 1

HandlersRegistered(mem) ==
    {mem.ioHandlers[i].chip : i \in 1..Len(mem.ioHandlers)} = {"vic", "sid", "cia1", "cia2"}

InHandlerWindow(mem, a) ==
    \E i \in 1..Len(mem.ioHandlers) :
        a >= mem.ioHandlers[i].start /\ a <= mem.ioHandlers[i].end

RamAt(mem, a) == IF a \in DOMAIN mem.ram THEN mem.ram[a] ELSE 0
RomAt(mem, a) == IF a \in DOMAIN mem.rom THEN mem.rom[a] ELSE 0
CharAt(mem, a) == IF (a - 53248) \in DOMAIN mem.charset THEN mem.charset[a - 53248] ELSE 0

\* The latest two operations are write(a, v) and then read(a).
WriteThenRead ==
    /\ NOps >= 2
    /\ LastOp.op = "read"
    /\ PrevOp.op = "write"
    /\ PrevOp.addr = LastOp.addr

(***************************************************************************)
(* C1.  With the machine's I/O handlers registered, a read in a switched   *)
(* window returns what the decision table says: $A000-$BFFF ROM if LORAM   *)
(* else RAM, $E000-$FFFF ROM if HIRAM else RAM, $D000-$DFFF outside color  *)
(* memory the I/O handler's value if CHAREN else the character-ROM byte.   *)
(***************************************************************************)
C1_DecisionTable ==
    (NOps >= 1 /\ LastOp.op = "read" /\ HandlersRegistered(memory)) =>
        LET a == LastOp.addr
            cfg == memory.bankConfig
            h == IOHandlerFor(memory, a)
        IN  /\ InBasicWindow(a) =>
                 LastOp.ret = IF Bit(cfg, 0) = 1 THEN RomAt(memory, a) ELSE RamAt(memory, a)
            /\ InKernalWindow(a) =>
                 LastOp.ret = IF Bit(cfg, 1) = 1 THEN RomAt(memory, a) ELSE RamAt(memory, a)
            /\ (InIOWindow(a) /\ ~InColorMemory(a) /\ h # 0) =>
                 LastOp.ret = IF Bit(cfg, 2) = 1
                              THEN HandlerRead(pre, memory.ioHandlers[h].chip, a)
                              ELSE CharAt(memory, a)

(***************************************************************************)
(* C2.  A write to a ROM-shadowed address lands in the RAM cell under the  *)
(* ROM: a read there still returns the ROM byte, the read returns the      *)
(* written value once a write to $0001 has cleared the window's bank bit,  *)
(* and no write, write16 or load changes the ROM or character-ROM arrays.  *)
(***************************************************************************)
C2_WriteUnderRom ==
    /\ memory.rom = RomImage.rom
    /\ memory.charset = RomImage.charset
    /\ (NOps >= 1 /\ LastOp.op = "write" /\ RomShown(LastOp.addr, LastOp.bank)) =>
           RamAt(memory, LastOp.addr) = LastOp.val
    /\ (WriteThenRead /\ RomShown(LastOp.addr, PrevOp.bank)) =>
           LastOp.ret = RomAt(memory, LastOp.addr)
    /\ (/\ NOps >= 3
        /\ LastOp.op = "read"
        /\ PrevOp.op = "write" /\ PrevOp.addr = 1
        /\ hist[NOps - 2].op = "write" /\ hist[NOps - 2].addr = LastOp.addr
        /\ RomShown(LastOp.addr, hist[NOps - 2].bank)
        /\ ~RomShown(LastOp.addr, PrevOp.val)) =>
           LastOp.ret = hist[NOps - 2].val

\* A value written under visible ROM has been read back after the bank bit
\* was cleared.
C2_Witness ==
    /\ NOps >= 3
    /\ LastOp.op = "read" /\ LastOp.addr = 57344 /\ LastOp.ret = 165
    /\ PrevOp.op = "write" /\ PrevOp.addr = 1
    /\ hist[NOps - 2].op = "write" /\ hist[NOps - 2].addr = 57344
    /\ RomShown(57344, hist[NOps - 2].bank)
    /\ RomAt(memory, 57344) # 165

(***************************************************************************)
(* C3.  write(a, v) immediately followed by read(a) returns v for every    *)
(* address that shows neither ROM nor character ROM and lies in no I/O     *)
(* window (a handler's range or color memory).                             *)
(***************************************************************************)
C3_ReadBack ==
    (/\ WriteThenRead
     /\ ~RomShown(LastOp.addr, memory.bankConfig)
     /\ ~(InIOWindow(LastOp.addr) /\ Bit(memory.bankConfig, 2) = 0)
     /\ ~InHandlerWindow(memory, LastOp.addr)
     /\ ~InColorMemory(LastOp.addr)) =>
        LastOp.ret = PrevOp.val

\* A value has been read back from RAM inside a switched window.
C3_Witness ==
    /\ WriteThenRead
    /\ LastOp.addr = 57344
    /\ ~RomShown(57344, memory.bankConfig)
    /\ LastOp.ret = 165

(***************************************************************************)
(* C4.  In color memory $D800-$DBFF, write(a, v) followed by read(a)       *)
(* returns v AND $0F whatever CHAREN is and whether or not handlers are    *)
(* registered, and the write touches no chip, RAM or character ROM.        *)
(***************************************************************************)
C4_ColorMemory ==
    /\ (WriteThenRead /\ InColorMemory(LastOp.addr)) =>
           LastOp.ret = PrevOp.val % 16
    /\ (NOps >= 1 /\ LastOp.op = "write" /\ InColorMemory(LastOp.addr)) =>
           /\ memory.ram = pre.memory.ram
           /\ memory.charset = pre.memory.charset
           /\ memory.rom = pre.memory.rom
           /\ memory.bankConfig = pre.memory.bankConfig
           /\ <<vic, sid, cia1, cia2>> = <<pre.vic, pre.sid, pre.cia1, pre.cia2>>
           /\ Get(memory.colorRAM, LastOp.addr - 55296, ColorFill) = LastOp.val % 16

\* Color memory has been read back with character ROM banked in and the
\* handlers registered.
C4_Witness ==
    /\ WriteThenRead
    /\ LastOp.addr = 55296
    /\ PrevOp.val = 165 /\ LastOp.ret = 5
    /\ Bit(memory.bankConfig, 2) = 0
    /\ HandlersRegistered(memory)
    /\ CharAt(memory, 55296) # 5

(***************************************************************************)
(* Vocabulary of the processor properties.                                 *)
(***************************************************************************)
\* The byte a read of a non-I/O address a yields in memory mem.
ByteAt(mem, a) == IF RomShown(a, mem.bankConfig) THEN RomAt(mem, a) ELSE RamAt(mem, a)

\* The little-endian word at vec and vec + 1.
WordAt(mem, vec) == ByteAt(mem, vec) + 256 * ByteAt(mem, vec + 1)

FlagBit(f) == IF f THEN 1 ELSE 0

\* The status byte of processor state c, reserved bit 5 set.
StatusByte(c) ==
    128 * FlagBit(c.N) + 64 * FlagBit(c.V) + 32 + 16 * FlagBit(c.B)
    + 8 * FlagBit(c.D) + 4 * FlagBit(c.I) + 2 * FlagBit(c.Z) + FlagBit(c.C)

StackCell(s) == 256 + (s % 256)

ChipsUnchanged == <<vic, sid, cia1, cia2>> = <<pre.vic, pre.sid, pre.cia1, pre.cia2>>

\* The latest operation performed the interrupt sequence through vec.
InterruptTaken(vec) ==
    LET p == pre.cpu.PC
        s == pre.cpu.SP
        cells == {StackCell(s), StackCell(s - 1), StackCell(s - 2)}
    IN  /\ RamAt(memory, StackCell(s)) = p \div 256
        /\ RamAt(memory, StackCell(s - 1)) = p % 256
        /\ RamAt(memory, StackCell(s - 2)) = StatusByte(pre.cpu)
        /\ \A a \in (DOMAIN memory.ram \cup DOMAIN pre.memory.ram) \ cells :
               RamAt(memory, a) = RamAt(pre.memory, a)
        /\ [memory EXCEPT !.ram = Empty] = [pre.memory EXCEPT !.ram = Empty]
        /\ ChipsUnchanged
        /\ cpu.SP = (s - 3) % 256
        /\ cpu.I
        /\ cpu.PC = WordAt(memory, vec)
        /\ [cpu EXCEPT !.SP = 0, !.PC = 0, !.I = TRUE]
               = [pre.cpu EXCEPT !.SP = 0, !.PC = 0, !.I = TRUE]

\* The latest operation changed nothing.
NothingChanged ==
    /\ memory = pre.memory
    /\ cpu = pre.cpu
    /\ ChipsUnchanged
    /\ running = pre.running

(***************************************************************************)
(* C5.  irq() with interrupt-disable set changes no register, flag, stack  *)
(* pointer or memory cell; nmi() performs the interrupt sequence through   *)
(* the vector at $FFFA whether interrupt-disable is set or clear.          *)
(***************************************************************************)
C5_IrqMaskedNmiNot ==
    /\ (NOps >= 1 /\ LastOp.op = "irq" /\ pre.cpu.I) => NothingChanged
    /\ (NOps >= 1 /\ LastOp.op = "nmi") => InterruptTaken(65530)

\* A masked irq() has been followed by an nmi() that was taken with
\* interrupt-disable set.
C5_Witness ==
    /\ NOps >= 2
    /\ PrevOp.op = "irq"
    /\ LastOp.op = "nmi"
    /\ pre.cpu.I
    /\ cpu.PC = 4660
    /\ cpu.SP # pre.cpu.SP

(***************************************************************************)
(* C6.  irq() with interrupt-disable clear, from PC = p and SP = s, leaves *)
(* the high byte of p at $0100+s, the low byte at $0100+((s-1) mod 256),   *)
(* the status byte with bit 5 set at $0100+((s-2) mod 256), SP = (s-3) mod *)
(* 256, interrupt-disable set, PC = the word at $FFFE/$FFFF, and A, X, Y   *)
(* and the other six flags unchanged.                                      *)
(***************************************************************************)
C6_IrqSequence ==
    (NOps >= 1 /\ LastOp.op = "irq" /\ ~pre.cpu.I) => InterruptTaken(65534)

\* An irq() has been taken with the stack pointer wrapping below $00.
C6_Witness ==
    /\ NOps >= 1
    /\ LastOp.op = "irq"
    /\ ~pre.cpu.I
    /\ pre.cpu.SP = 1
    /\ cpu.SP = 254
    /\ pre.cpu.PC = 512
    /\ cpu.PC = 65352
    /\ RamAt(memory, 256) = 0 /\ RamAt(memory, 257) = 2
    /\ RamAt(memory, 511) = StatusByte(pre.cpu)

(***************************************************************************)
(* C7.  reset() sets PC to the word at $FFFC/$FFFD, SP to $FD and          *)
(* interrupt-disable, and a second reset() with memory unchanged leaves    *)
(* the register and flag state as the first one left it.                   *)
(***************************************************************************)
C7_ResetIdempotent ==
    /\ (NOps >= 1 /\ LastOp.op = "reset") =>
           /\ cpu.PC = WordAt(memory, 65532)
           /\ cpu.SP = 253
           /\ cpu.I
           /\ memory = pre.memory
    /\ (NOps >= 2 /\ LastOp.op = "reset" /\ PrevOp.op = "reset") => cpu = pre.cpu

\* Two consecutive resets from a state with other registers and flags.
C7_Witness ==
    /\ NOps = 2
    /\ LastOp.op = "reset" /\ PrevOp.op = "reset"
    /\ cpu.PC = 512
    /\ cpu.C /\ cpu.N
    /\ cpu = pre.cpu

(***************************************************************************)
(* C8.  The state after reset() is deterministic: the registers A, X, Y,   *)
(* SP, PC and all seven flags equal those of any other processor bound to  *)
(* the same memory after its reset(), here a newly constructed one.        *)
(***************************************************************************)
C8_ResetDeterministic ==
    (NOps >= 1 /\ LastOp.op = "reset") =>
        LET other == MOS6502_reset([pre EXCEPT !.cpu = MOS6502_new]).cpu
        IN  [cpu EXCEPT !.cycles = 0] = [other EXCEPT !.cycles = 0]

(***************************************************************************)
(* C9.  step() on an opcode without a defined operation returns 2 cycles,  *)
(* advances PC by 1 modulo 65536, changes no other register, flag, stack   *)
(* or memory cell, and leaves the clock running.                           *)
(***************************************************************************)
C9_IllegalOpcodeInert ==
    (NOps >= 1 /\ LastOp.op = "step" /\ LastOp.val \notin DefinedOpcodes) =>
        /\ LastOp.ret = 2
        /\ cpu.PC = (pre.cpu.PC + 1) % 65536
        /\ [cpu EXCEPT !.PC = 0, !.cycles = 0] = [pre.cpu EXCEPT !.PC = 0, !.cycles = 0]
        /\ memory = pre.memory
        /\ ChipsUnchanged
        /\ running = pre.running

\* An undefined opcode has been stepped over at the top of the address
\* space while the clock was running.
C9_Witness ==
    /\ NOps >= 1
    /\ LastOp.op = "step"
    /\ LastOp.val = 255
    /\ pre.cpu.PC = 65535
    /\ cpu.PC = 0
    /\ running

(***************************************************************************)
(* C10.  PC stays in 0..65535 and A, X, Y, SP in 0..255 after every        *)
(* reset(), step(), irq() and nmi(), and every effective address that an   *)
(* addressing mode computes is in 0..65535.                                *)
(***************************************************************************)
C10_Ranges ==
    /\ cpu.PC \in 0..65535
    /\ cpu.A \in 0..255
    /\ cpu.X \in 0..255
    /\ cpu.Y \in 0..255
    /\ cpu.SP \in 0..255
    /\ \A i \in 1..NOps : hist[i].ea \subseteq 0..65535

\* STA $FFFF,X with X = $FF has computed an address that wrapped.
C10_Witness ==
    /\ NOps >= 1
    /\ LastOp.op = "step"
    /\ LastOp.val = 157
    /\ pre.cpu.X = 255
    /\ LastOp.ea = {254}

(***************************************************************************)
(* C11.  JMP (ptr), opcode $6C, takes the low byte of its target from ptr. *)
(* When the low byte of ptr is $FF the high byte comes from the first byte *)
(* of the same page (ptr AND $FF00), not from ptr + 1; for every other ptr *)
(* it comes from ptr + 1.                                                  *)
(***************************************************************************)
C11_IndirectPageWrap ==
    (NOps >= 1 /\ LastOp.op = "step" /\ LastOp.val = 108) =>
        LET ptr == Memory_read(pre, pre.cpu.PC + 1)
                   + 256 * Memory_read(pre, pre.cpu.PC + 2)
            lo == Memory_read(pre, ptr)
            hi == IF ptr % 256 = 255
                  THEN Memory_read(pre, ptr - 255)
                  ELSE Memory_read(pre, ptr + 1)
        IN  cpu.PC = 256 * hi + lo

\* JMP ($01FF) has been executed with different bytes at $0100 and $0200.
C11_Witness ==
    /\ NOps >= 1
    /\ LastOp.op = "step" /\ LastOp.val = 108
    /\ pre.cpu.PC = 512
    /\ Memory_read(pre, 513) = 255 /\ Memory_read(pre, 514) = 1
    /\ Memory_read(pre, 256) # Memory_read(pre, 512)
    /\ cpu.PC = 256 * Memory_read(pre, 256) + Memory_read(pre, 511)

(***************************************************************************)
(* C12.  For every combination of the seven flags, the byte getP() returns *)
(* has the reserved bit $20 set, and setP() of that byte leaves all seven  *)
(* flags as they were before the packing.                                  *)
(***************************************************************************)
C12_StatusRoundTrip ==
    /\ (NOps >= 1 /\ LastOp.op = "getP") =>
           /\ Bit(LastOp.ret, 5) = 1
           /\ LastOp.ret = StatusByte(pre.cpu)
    /\ (/\ NOps >= 2
        /\ LastOp.op = "setP" /\ PrevOp.op = "getP"
        /\ LastOp.val = PrevOp.ret) =>
           /\ cpu.N = pre.cpu.N /\ cpu.V = pre.cpu.V /\ cpu.B = pre.cpu.B
           /\ cpu.D = pre.cpu.D /\ cpu.I = pre.cpu.I /\ cpu.Z = pre.cpu.Z
           /\ cpu.C = pre.cpu.C

\* A mixed flag combination with the break flag clear has been packed and
\* unpacked.
C12_Witness ==
    /\ NOps = 2
    /\ LastOp.op = "setP" /\ PrevOp.op = "getP"
    /\ LastOp.val = PrevOp.ret
    /\ PrevOp.ret = 163
    /\ cpu.N /\ ~cpu.V /\ ~cpu.B /\ ~cpu.D /\ ~cpu.I /\ cpu.Z /\ cpu.C

(***************************************************************************)
(* C13.  After LDA, LDX, LDY, TAX, TAY, TXA, TYA, TSX, INX, INY, DEX, DEY  *)
(* and PLA the zero flag equals (result = 0) and the negative flag equals  *)
(* bit 7 of the 8-bit result left in the destination register.             *)
(***************************************************************************)
LoadsA == {169, 165, 173, 138, 152, 104}
LoadsX == {162, 166, 170, 186, 232, 202}
LoadsY == {160, 168, 200, 136}

\* The destination register of a load, transfer, increment or pull opcode.
ResultReg(opcode) ==
    IF opcode \in LoadsA THEN "A" ELSE IF opcode \in LoadsX THEN "X" ELSE "Y"

\* The results of the register-to-register opcodes, from the state before.
TransferResult(opcode, c) ==
    CASE opcode = 170 -> c.A
      [] opcode = 168 -> c.A
      [] opcode = 138 -> c.X
      [] opcode = 152 -> c.Y
      [] opcode = 186 -> c.SP
      [] opcode = 232 -> (c.X + 1) % 256
      [] opcode = 200 -> (c.Y + 1) % 256
      [] opcode = 202 -> (c.X - 1) % 256
      [] opcode = 136 -> (c.Y - 1) % 256

C13_ZeroNegative ==
    (NOps >= 1 /\ LastOp.op = "step" /\ LastOp.val \in LoadsA \cup LoadsX \cup LoadsY) =>
        LET result == cpu[ResultReg(LastOp.val)]
        IN  /\ result \in 0..255
            /\ cpu.Z = (result = 0)
            /\ cpu.N = (Bit(result, 7) = 1)
            /\ LastOp.val \in {170, 168, 138, 152, 186, 232, 200, 202, 136} =>
                   result = TransferResult(LastOp.val, pre.cpu)
            /\ LastOp.val \in {169, 162, 160} =>
                   result = Memory_read(pre, pre.cpu.PC + 1)

\* TAX has moved $80 into X from a state with the negative flag clear.
C13_Witness ==
    /\ NOps >= 1 /\ LastOp.op = "step" /\ LastOp.val = 170
    /\ pre.cpu.A = 128 /\ ~pre.cpu.Z /\ ~pre.cpu.N
    /\ cpu.X = 128 /\ ~cpu.Z /\ cpu.N

(***************************************************************************)
(* C14.  step() on ADC # ($69) with operand M sets A to (A + M + C) mod    *)
(* 256, C to the carry out and V to the signed overflow, and advances PC   *)
(* by 2; SBC # ($E9) likewise computes A - M - (1 - C), with C clear when  *)
(* a borrow occurred.                                                      *)
(***************************************************************************)
Signed(b) == IF b >= 128 THEN b - 256 ELSE b

C14_AddSubtract ==
    (NOps >= 1 /\ LastOp.op = "step" /\ LastOp.val \in {105, 233}) =>
        LET a == pre.cpu.A
            operand == Memory_read(pre, pre.cpu.PC + 1)
            c == FlagBit(pre.cpu.C)
            sum == IF LastOp.val = 105 THEN a + operand + c ELSE a - operand - (1 - c)
            ssum == IF LastOp.val = 105
                    THEN Signed(a) + Signed(operand) + c
                    ELSE Signed(a) - Signed(operand) - (1 - c)
        IN  /\ cpu.A = sum % 256
            /\ cpu.C = (IF LastOp.val = 105 THEN sum > 255 ELSE sum >= 0)
            /\ cpu.V = (ssum < -128 \/ ssum > 127)
            /\ cpu.PC = (pre.cpu.PC + 2) % 65536

(***************************************************************************)
(* C15: the clock goes from Stopped to Running only by start() or run(),   *)
(* and stop() or pause() leaves it Stopped; start() or run() on a Running  *)
(* clock changes nothing: no instruction is executed, no frame is begun    *)
(* and no further frame callback is scheduled.                             *)
(***************************************************************************)
C15_ClockStates ==
    /\ (running /\ ~clock.was.running) => clock.last \in {"start", "run"}
    /\ clock.last \in {"stop", "pause"} => ~running
    /\ (clock.last \in {"start", "run"} /\ clock.was.running) =>
          /\ running
          /\ clock.pc = "idle"
          /\ clock.steps = clock.was.steps
          /\ clock.frames = clock.was.frames
          /\ clock.frameCount = clock.was.frameCount
          /\ clock.timers = clock.was.timers
          /\ Machine(0) = pre

\* start() or run() was called on a Running clock that has executed a frame
\* and has the next one scheduled.
C15_Witness ==
    /\ clock.last \in {"start", "run"}
    /\ clock.was.running
    /\ clock.timers = 1
    /\ clock.steps > 0

(***************************************************************************)
(* C16: in every iteration of the frame loop, after step() returned n      *)
(* cycles, vic.cycle() has been called n times and cia1.cycle(n),          *)
(* cia2.cycle(n) and sid.cycle(n) once each; so between instructions the   *)
(* cycles the video chip has been given equal the cycles step() returned.  *)
(***************************************************************************)
C16_ChipsInLockstep ==
    /\ clock.vicCycles = clock.stepCycles
    /\ clock.steps > 0 =>
          /\ clock.tick.vic = clock.tick.n
          /\ clock.tick.cia1 = <<clock.tick.n>>
          /\ clock.tick.cia2 = <<clock.tick.n>>
          /\ clock.tick.sid = <<clock.tick.n>>

CompareLine(v) == Get(v.registers, 18, 0) + 2 * And(Get(v.registers, 17, 0), 128)

\* The latest cycle() moved the raster onto the compare line, the raster
\* interrupt enabled in $D01A.
RasterMatched ==
    /\ LastOp.op = "vic.cycle"
    /\ LastOp.ret = 0
    /\ vic.rasterY # pre.vic.rasterY
    /\ vic.rasterY = CompareLine(vic)
    /\ Bit(Get(vic.registers, 26, 0), 0) = 1

\* The latest cia1.cycle(n) was given more cycles than timer A, started
\* and with its interrupt enabled, had left.
TimerUnderflowed ==
    /\ LastOp.op = "cia1.cycle"
    /\ Bit(Get(pre.cia1.registers, 14, 0), 0) = 1
    /\ Bit(Get(pre.cia1.registers, 13, 0), 0) = 1
    /\ Get(pre.cia1.registers, 4, 0) + 256 * Get(pre.cia1.registers, 5, 0) < LastOp.val

\* The processor and the memory are those cb leaves behind.
CallbackDone(cb) == cpu = cb.cpu /\ memory = cb.memory

C18_ChipInterrupts ==
    NOps >= 1 =>
        /\ (RasterMatched /\ ~pre.cpu.I) => CallbackDone(VIC2_onIRQ(pre))
        /\ (TimerUnderflowed /\ ~pre.cpu.I) => CallbackDone(CIA1_onIRQ(pre))

(***************************************************************************)
(* C19: a frame loop is left with cyclesPerFrame cycles counted (19656 in  *)
(* PAL mode, 17095 in NTSC mode) exactly when onFrameComplete is called,   *)
(* once; the next frame loop starts counting from zero.                    *)
(***************************************************************************)
\* The latest action ended a frame loop that has counted a whole frame.
FrameCompleted == clock.last = "frameEnd" /\ clock.cycles >= clock.cyclesPerFrame

C19_FrameBoundary ==
    /\ clock.cyclesPerFrame = IF clock.palMode THEN 19656 ELSE 17095
    /\ clock.signals = clock.was.signals + (IF FrameCompleted THEN 1 ELSE 0)
    /\ (clock.pc = "loop" /\ clock.last # "tick") => clock.cycles = 0

(***************************************************************************)
(* C20: stop() takes effect between instructions.  An instruction is       *)
(* executed only on a Running clock and brings its chip cycles with it;    *)
(* stop() and pause() execute nothing; a scheduled runFrame that fires on  *)
(* a Stopped clock returns at once: no instruction, no frame, no timer.    *)
(***************************************************************************)
C20_StopIsCooperative ==
    /\ clock.last = "tick" =>
          /\ clock.was.running
          /\ clock.steps = clock.was.steps + 1
          /\ ~clock.tick.error =>
                /\ clock.tick.vic = clock.tick.n
                /\ clock.tick.cia1 = <<clock.tick.n>>
                /\ clock.tick.cia2 = <<clock.tick.n>>
                /\ clock.tick.sid = <<clock.tick.n>>
    /\ clock.last \in {"stop", "pause"} =>
          /\ ~running
          /\ clock.pc = "idle"
          /\ clock.steps = clock.was.steps
          /\ [Machine(0) EXCEPT !.running = pre.running] = pre
    /\ (clock.last = "timer" /\ ~clock.was.running) =>
          /\ ~running
          /\ clock.pc = "idle"
          /\ clock.steps = clock.was.steps
          /\ clock.frames = clock.was.frames
          /\ clock.frameCount = clock.was.frameCount
          /\ clock.timers = clock.was.timers - 1
          /\ Machine(0) = pre
    /\ (~running /\ ~clock.was.running) => clock.steps = clock.was.steps

\* The runFrame scheduled at the end of a frame has fired after stop().
C20_Witness ==
    /\ clock.last = "timer"
    /\ ~clock.was.running
    /\ clock.was.timers = 1
    /\ clock.steps > 0
    /\ clock.errors = 0

(***************************************************************************)
(* C21: 63 calls of cycle() move the raster line up by exactly one modulo  *)
(* 312 and leave the cycle within the line where it was; the step from     *)
(* line 311 to line 0 sets frameComplete; the raster line stays in 0..311  *)
(* and the cycle within the line in 0..62.                                 *)
(***************************************************************************)
C21_RasterCounters ==
    /\ vic.rasterY \in 0..311
    /\ vic.cycleCounter \in 0..62
    /\ (NOps >= 1 /\ LastOp.op = "vic.line") =>
          /\ vic.rasterY = (pre.vic.rasterY + 1) % 312
          /\ vic.cycleCounter = pre.vic.cycleCounter
          /\ pre.vic.rasterY = 311 => vic.frameComplete
    /\ (NOps >= 1 /\ LastOp.op = "vic.cycle" /\ pre.vic.rasterY = 311 /\ vic.rasterY = 0) =>
          vic.frameComplete

(***************************************************************************)
(* C22: after reset() of the timer chip, the video chip or the audio chip  *)
(* every register of that chip is zero, and the video chip is at raster    *)
(* line 0, cycle 0 of the line.                                            *)
(***************************************************************************)
\* No register of the array holds a value other than zero.
AllZero(registers) == \A r \in DOMAIN registers : registers[r] = 0

C22_ChipReset ==
    NOps >= 1 =>
        /\ LastOp.op = "cia1.reset" => AllZero(cia1.registers)
        /\ LastOp.op = "sid.reset" => AllZero(sid.registers)
        /\ LastOp.op = "vic.reset" =>
              /\ AllZero(vic.registers)
              /\ vic.rasterY = 0
              /\ vic.cycleCounter = 0

(***************************************************************************)
(* C23: the registers of a chip are addressed modulo the size of its array *)
(* (CIA 16, VIC2 64, SID 32).                                              *)
(***************************************************************************)
ArraySize == [vic |-> 64, cia1 |-> 16, sid |-> 32]

RegistersOf(m, chip) ==
    IF chip = "vic" THEN m.vic.registers
    ELSE IF chip = "cia1" THEN m.cia1.registers
    ELSE m.sid.registers

\* The latest operation wrote a register of chip: the array holds the byte
\* in that register and is otherwise as before.
WroteOneRegister(chip) ==
    (NOps >= 1 /\ LastOp.op = WriteOp[chip]) =>
        LET reg == LastOp.addr % ArraySize[chip]
            now == RegistersOf(Machine(0), chip)
            before == RegistersOf(pre, chip)
        IN  /\ Get(now, reg, 0) = LastOp.val
            /\ \A r \in 0..(ArraySize[chip] - 1) \ {reg} : Get(now, r, 0) = Get(before, r, 0)

\* The latest two operations wrote a register of chip and read the same
\* register, at the same or at another address.
WroteThenReadRegister(chip) ==
    /\ NOps >= 2
    /\ PrevOp.op = WriteOp[chip]
    /\ LastOp.op = ReadOp[chip]
    /\ LastOp.addr % ArraySize[chip] = PrevOp.addr % ArraySize[chip]

\* The registers whose read does not return the stored byte: the raster
\* registers of the video chip, the paddle, oscillator and envelope
\* registers of the audio chip.
ChipDriven == [vic |-> {17, 18}, cia1 |-> {}, sid |-> {25, 26, 27, 28}]

\* C23 as stated: for every chip and register, write(a, v) followed by
\* read(a + k * size) returns v, and the write changes no other register.
C23_RegistersModulo ==
    \A chip \in Chips :
        /\ WroteOneRegister(chip)
        /\ WroteThenReadRegister(chip) => LastOp.ret = PrevOp.val

\* C23 amended: as stated for every register but the chip-driven ones; a
\* read of VIC2 $12 returns the low byte of the raster line, of $11 bit 8
\* of the raster line over the low seven bits written, of SID $19 and $1A
\* 255, and of SID $1B and $1C a byte the chip produces.
C23_RegistersModuloAmended ==
    \A chip \in Chips :
        /\ WroteOneRegister(chip)
        /\ WroteThenReadRegister(chip) =>
              LET reg == LastOp.addr % ArraySize[chip]
              IN  IF reg \notin ChipDriven[chip] THEN LastOp.ret = PrevOp.val
                  ELSE IF chip = "vic" /\ reg = 18 THEN LastOp.ret = vic.rasterY % 256
                  ELSE IF chip = "vic"
                  THEN LastOp.ret = 128 * (vic.rasterY \div 256) + (PrevOp.val % 128)
                  ELSE IF reg \in {25, 26} THEN LastOp.ret = 255
                  ELSE LastOp.ret \in RandomBytes

\* CIA register $0D was written and read back one array size up.
C23_Witness ==
    /\ WroteThenReadRegister("cia1")
    /\ PrevOp.addr = 13 /\ LastOp.addr = 29
    /\ PrevOp.val = 165 /\ LastOp.ret = 165

(***************************************************************************)
(* C24: after C64Emulator.reset() the bank configuration is $37 and every  *)
(* RAM cell the reset does not store into is zero.                         *)
(***************************************************************************)
\* The cells reset() stores into: the processor port, the keyboard buffer
\* count and strobe, the decode-table vector, and the screen.
ResetCells == {0, 1, 198, 203, 655, 656} \cup 1024..2023

C24_MachineReset ==
    (NOps >= 1 /\ LastOp.op = "emulator.reset") =>
        /\ memory.bankConfig = 55
        /\ \A a \in DOMAIN memory.ram : a \in ResetCells \/ memory.ram[a] = 0
        /\ RamAt(memory, 0) = 47
        /\ RamAt(memory, 1) = 55

\* The machine was reset with RAM visible at $E000 and the loop, which
\* the processor had entered, stored there.
C24_Witness ==
    /\ NOps >= 4
    /\ LastOp.op = "emulator.reset"
    /\ pre.memory.bankConfig = 53
    /\ RamAt(pre.memory, 57344) = 232
    /\ pre.cpu.PC = 57345
    /\ RamAt(memory, 57344) = 0

(***************************************************************************)
(* C25: with $01 written so that RAM shows at $E000-$FFFF and a reset      *)
(* vector and a three-instruction loop stored in that RAM, a reset and     *)
(* steps make PC follow the loop in RAM, not the ROM reset routine.        *)
(***************************************************************************)
\* The code was stored with HIRAM clear, then the reset named was called,
\* then step() only.
CustomCodeScenario(resetOp) ==
    /\ NOps >= 2
    /\ hist[1].op = "store" /\ hist[1].val = 53
    /\ hist[2].op = resetOp
    /\ \A i \in 3..NOps : hist[i].op = "step"

\* Where the loop INX, TXA, JMP $E000 has PC after k instructions.
LoopPC(k) == <<57344, 57345, 57346>>[(k % 3) + 1]

\* C25 as stated, the reset being the machine reset C64Emulator.reset().
C25_CustomResetVector ==
    CustomCodeScenario("emulator.reset") => cpu.PC = LoopPC(NOps - 2)

\* C25 amended: after the processor reset cpu.reset() PC follows the loop
\* in RAM; the machine reset clears that RAM and makes the KERNAL ROM
\* visible again, and PC starts from the reset vector of the ROM.
C25_CustomResetVectorAmended ==
    /\ CustomCodeScenario("cpu.reset") =>
          /\ cpu.PC = LoopPC(NOps - 2)
          /\ cpu.X = (NOps - 2 + 2) \div 3
          /\ memory.bankConfig = 53
    /\ CustomCodeScenario("emulator.reset") =>
          /\ memory.bankConfig = 55
          /\ RamAt(memory, 57344) = 0
          /\ NOps = 2 => cpu.PC = RomAt(memory, 65532) + 256 * RomAt(memory, 65533)
          /\ cpu.PC \notin 57344..57348

\* The processor has gone once round the loop in RAM after cpu.reset().
C25_Witness ==
    /\ CustomCodeScenario("cpu.reset")
    /\ NOps = 5
    /\ cpu.PC = 57344
    /\ cpu.X = 1 /\ cpu.A = 1

(***************************************************************************)
(* C26: loadPRG(data) copies data[2..] to consecutive addresses from the   *)
(* little-endian address in data[0..1]; exactly when that address is $0801 *)
(* it stores address + payload length, little-endian, at $2D/$2E and at    *)
(* $2F/$30.                                                                *)
(***************************************************************************)
\* The load address in the header of the image loaded last, the length of
\* its payload, and the cells the payload goes to.
PrgLoadAddr == LastOp.val[1] + 256 * LastOp.val[2]
PrgLength == Len(LastOp.val) - 2
PrgTarget == {(PrgLoadAddr + i) % 65536 : i \in 0..(PrgLength - 1)}
PrgPointers == {45, 46, 47, 48}

C26_LoadPRG ==
    (NOps >= 1 /\ LastOp.op = "loadPRG") =>
        /\ \A i \in 0..(PrgLength - 1) :
               RamAt(memory, (PrgLoadAddr + i) % 65536) = LastOp.val[i + 3]
        /\ PrgLoadAddr = 2049 =>
               /\ RamAt(memory, 45) = (2049 + PrgLength) % 256
               /\ RamAt(memory, 46) = (2049 + PrgLength) \div 256
               /\ RamAt(memory, 47) = (2049 + PrgLength) % 256
               /\ RamAt(memory, 48) = (2049 + PrgLength) \div 256
        /\ \A a \in (DOMAIN memory.ram \cup DOMAIN pre.memory.ram) \ PrgTarget :
               (PrgLoadAddr = 2049 /\ a \in PrgPointers) \/ RamAt(memory, a) = RamAt(pre.memory, a)
        /\ [Machine(0) EXCEPT !.memory.ram = Empty, !.memory.bankConfig = 0]
             = [pre EXCEPT !.memory.ram = Empty, !.memory.bankConfig = 0]

\* A three-byte program was loaded at $0801 over pointer cells that held
\* something else: the pointers read $0804.
C26_Witness ==
    /\ NOps = 2
    /\ LastOp.op = "loadPRG"
    /\ LastOp.val = <<1, 8, 165, 90, 7>>
    /\ RamAt(pre.memory, 45) = 201
    /\ RamAt(memory, 45) = 4 /\ RamAt(memory, 46) = 8
    /\ RamAt(memory, 2050) = 90

(***************************************************************************)
(* C27: the ROM load step never fails, and when a ROM file is missing or   *)
(* the images do not have the sizes 8 Ki (BASIC), 8 Ki (KERNAL) and 4 Ki   *)
(* (character ROM) the built-in minimal ROM set is the one in memory.      *)
(***************************************************************************)
\* The responses of the load, and the ROM set made of them.
Fetched == hist[1].val
FetchedRoms == ROMLoader_loadFromFiles(Fetched).roms

RomFileMissing == \E f \in DOMAIN Fetched : Fetched[f].status # "ok"

ExpectedSizes ==
    /\ FetchedRoms.basic.length = 8192
    /\ FetchedRoms.kernal.length = 8192
    /\ FetchedRoms.charset.length = 4096

\* memory.rom and memory.charset hold the minimal ROM set.
MinimalRomsInMemory ==
    /\ \A a \in 0..8191 :
           RomAt(memory, 57344 + a) = Get(ROMLoader_getMinimalTestROMs.kernal.cells, a, 0)
    /\ \A a \in 40960..57343 : RomAt(memory, a) = 0
    /\ memory.charset = ROMLoader_getMinimalTestROMs.charset.cells

C27_RomLoadFallback ==
    NOps >= 1 =>
        /\ hist[1].ret = 0
        /\ (RomFileMissing \/ ~ExpectedSizes) => MinimalRomsInMemory

(***************************************************************************)
(* C28: with the minimal ROM set loaded, a machine reset followed by       *)
(* repeated step() calls eventually reaches a state in which screen cells  *)
(* $0400-$0405 hold the codes of READY. and from then on the cells keep    *)
(* them and PC stays inside the final loop of the reset routine.           *)
(***************************************************************************)
ReadyCodes == <<82, 69, 65, 68, 89, 46>>

ReadyCells == \A i \in 1..6 : RamAt(memory, 1024 + i - 1) = ReadyCodes[i]

\* The final loop: from the jump target $FC4D to the last byte of the JMP
\* at $FC51.
InFinalLoop == cpu.PC >= 64589 /\ cpu.PC <= 64595

C29_ResetKeepsCycling ==
    (NOps >= 2 /\ PrevOp.op = "vic.reset" /\ LastOp.op = "vic.cycle") =>
        /\ LastOp.ret = 0
        /\ vic.cycleCounter = (pre.vic.cycleCounter + 1) % 63

(***************************************************************************)
(* C30: CMP #M and CPX #M set carry to (register >= M), zero to            *)
(* (register = M) and negative to bit 7 of (register - M) mod 256, leave   *)
(* A, X, Y and SP as they were and move PC on by 2.                        *)
(***************************************************************************)
\* The register the instruction compares, and its operand byte.
ComparedRegister == IF LastOp.val = 201 THEN pre.cpu.A ELSE pre.cpu.X
CompareOperand == Memory_read(pre, (pre.cpu.PC + 1) % 65536)

C30_CompareImmediate ==
    (NOps >= 1 /\ LastOp.op = "step" /\ LastOp.val \in {201, 224}) =>
        /\ cpu.C = (ComparedRegister >= CompareOperand)
        /\ cpu.Z = (ComparedRegister = CompareOperand)
        /\ cpu.N = (((ComparedRegister - CompareOperand) % 256) \div 128 = 1)
        /\ cpu.A = pre.cpu.A /\ cpu.X = pre.cpu.X
        /\ cpu.Y = pre.cpu.Y /\ cpu.SP = pre.cpu.SP
        /\ cpu.PC = (pre.cpu.PC + 2) % 65536

\* CPX #$80 with X = $7F: no carry, not zero, negative ($FF).
C30_Witness ==
    /\ NOps = 1
    /\ LastOp.op = "step" /\ LastOp.val = 224
    /\ pre.cpu.X = 127 /\ CompareOperand = 128
    /\ ~cpu.C /\ ~cpu.Z /\ cpu.N
    /\ cpu.PC = 0

(***************************************************************************)
(* C31: JSR at address p and the matching RTS, with the stack balanced in  *)
(* between, leave PC = (p + 3) mod 65536 and SP as it was before the JSR.  *)
(***************************************************************************)
\* The number of steps in hist[a..b] that executed the opcode.
Executed(opcode, a, b) == Cardinality({i \in a..b : hist[i].op = "step" /\ hist[i].val = opcode})

\* The first operation was a JSR, the latest an RTS, and between them as
\* many PLA as PHA were executed and no JSR or RTS.
MatchingReturn ==
    /\ NOps >= 2
    /\ hist[1].op = "step" /\ hist[1].val = 32
    /\ LastOp.op = "step" /\ LastOp.val = 96
    /\ Executed(72, 2, NOps - 1) = Executed(104, 2, NOps - 1)
    /\ Executed(32, 2, NOps - 1) = 0
    /\ Executed(96, 2, NOps - 1) = 0

C31_CallReturn ==
    MatchingReturn =>
        /\ cpu.PC = (pre.cpu.PC + 3) % 65536
        /\ cpu.SP = pre.cpu.SP

\* JSR at $FFFD with SP = 0: the return address pushed is $FFFF, the pushes
\* wrap to $01FF, and the RTS after PHA PLA returns to $0000.
C31_Witness ==
    /\ MatchingReturn
    /\ NOps = 4
    /\ pre.cpu.PC = 65533 /\ pre.cpu.SP = 0
    /\ cpu.PC = 0 /\ cpu.SP = 0
    /\ RamAt(memory, 511) = 255 /\ RamAt(memory, 256) = 255

(***************************************************************************)
(* C32: an accepted irq(), or an nmi(), followed by RTI with the stack     *)
(* balanced in between restores PC, SP and the seven status flags to       *)
(* their values at the moment the interrupt was taken.                     *)
(***************************************************************************)
\* The first operation was an interrupt that was taken, the latest one an
\* RTI, and between them as many PLA as PHA were executed and no RTI.
InterruptReturned ==
    /\ NOps >= 2
    /\ \/ hist[1].op = "irq" /\ ~pre.cpu.I
       \/ hist[1].op = "nmi"
    /\ LastOp.op = "step" /\ LastOp.val = 64
    /\ Executed(72, 2, NOps - 1) = Executed(104, 2, NOps - 1)
    /\ Executed(64, 2, NOps - 1) = 0

Flags(c) == <<c.N, c.V, c.B, c.D, c.I, c.Z, c.C>>

C32_InterruptReturn ==
    InterruptReturned =>
        /\ cpu.PC = pre.cpu.PC
        /\ cpu.SP = pre.cpu.SP
        /\ Flags(cpu) = Flags(pre.cpu)

\* An irq() at PC = $FFFF with SP = 1 and only break and decimal set; the
\* handler set carry and zero and cleared interrupt-disable before RTI.
C32_Witness ==
    /\ InterruptReturned
    /\ hist[1].op = "irq"
    /\ NOps = 5
    /\ pre.cpu.PC = 65535 /\ pre.cpu.SP = 1
    /\ pre.cpu.B /\ pre.cpu.D /\ ~pre.cpu.C /\ ~pre.cpu.Z
    /\ cpu.A = 0
    /\ cpu.PC = 65535 /\ cpu.SP = 1 /\ ~cpu.I /\ cpu.B

(***************************************************************************)
(* C33: every step() of the frame loop returns between 2 and 6 cycles, a   *)
(* frame that has ended has counted at least cyclesPerFrame and at most    *)
(* cyclesPerFrame + 5 cycles, and a frame starts with its count at 0.      *)
(***************************************************************************)
FrameEnded == clock.last = "frameEnd"

FrameCyclesInRange ==
    /\ clock.cycles >= clock.cyclesPerFrame
    /\ clock.cycles <= clock.cyclesPerFrame + 5

C33_FrameCycles ==
    /\ clock.last = "tick" => clock.tick.n \in 2..6
    /\ FrameEnded => FrameCyclesInRange
    /\ (clock.pc = "loop" /\ clock.last \in {"start", "run", "timer"}) => clock.cycles = 0

\* The same for the frames in which no iteration has faulted.
C33_FrameCyclesWithoutFault ==
    /\ clock.last = "tick" => clock.tick.n \in 2..6
    /\ (FrameEnded /\ clock.errors = 0) => FrameCyclesInRange
    /\ (clock.pc = "loop" /\ clock.last \in {"start", "run", "timer"}) => clock.cycles = 0

(***************************************************************************)
(* C34: in every state of the Memory, read(0x0001) returns the bank        *)
(* configuration byte that resolves the reads of the switched windows.     *)
(***************************************************************************)
C34_PortReadsBankConfig == Memory_read(Machine(0), 1) = memory.bankConfig

\* The same in the states whose latest write to $0001 was followed by no
\* clear(): the states in which the port has been written and not erased.
PortWritten ==
    \E i \in 1..NOps :
        /\ hist[i].op = "write" /\ hist[i].addr = 1
        /\ \A j \in (i + 1)..NOps : hist[j].op # "clear"

C34_PortReadsBankConfigOnceWritten == PortWritten => C34_PortReadsBankConfig

(***************************************************************************)
(* C36: forceKeyboardProcess() stores the pending keys that fit, in their  *)
(* order, in consecutive cells from $0277 + n, where n is the counter at   *)
(* $C6; the counter grows by the number of keys stored and does not pass   *)
(* 10; the keys that do not fit stay pending.                              *)
(***************************************************************************)
KeysForced == NOps >= 1 /\ LastOp.op = "forceKeyboardProcess"

\* The number of pending keys that fit into the buffer before the call.
KeysThatFit ==
    LET n == Memory_read(pre, 198)
    IN  Min(Len(pre.cia1.pendingKeys), IF n < 10 THEN 10 - n ELSE 0)

C36_KeysInOrder ==
    KeysForced =>
        LET n == Memory_read(pre, 198)
            keys == pre.cia1.pendingKeys
        IN  /\ \A i \in 1..KeysThatFit : Memory_read(Machine(0), 631 + n + (i - 1)) = keys[i]
            /\ Memory_read(Machine(0), 198) = n + KeysThatFit
            /\ Memory_read(Machine(0), 198) <= 10
            /\ cia1.pendingKeys = SubSeq(keys, KeysThatFit + 1, Len(keys))

\* The same for the calls that find at most one pending key.
C36_SingleKeyStored == (KeysForced /\ Len(pre.cia1.pendingKeys) <= 1) => C36_KeysInOrder

(***************************************************************************)
(* C35: for any interleaving of start(), run(), stop(), pause() and timer  *)
(* firings at most one runFrame callback is scheduled at any time.         *)
(***************************************************************************)
C35_OneFrameCallback == clock.timers <= 1

(***************************************************************************)
(* The running BASIC program: where execution goes after the latest line.  *)
(***************************************************************************)
SortedProgram == SortedEntries(clock.basicProgram, DOMAIN clock.basicProgram)

\* Execution goes on at the line with the given index.
ContinuesAt(index) ==
    /\ clock.executionContext.live
    /\ clock.executionContext.currentIndex = Num(index)

\* What GOTO target does: execution goes on at the first line numbered
\* target or higher, and the program ends with an error when there is none.
TransferredTo(target) ==
    LET targetIndex == FindIndex(SortedProgram, target)
    IN  IF targetIndex = -1
        THEN /\ ~clock.executionContext.live
             /\ \E i \in 1..Len(clock.printed) : clock.printed[i] = "?UNDEFINED STATEMENT ERROR"
        ELSE ContinuesAt(targetIndex)

\* The latest executed line was an IF whose action has the given keyword.
IfExecuted(then) ==
    /\ NOps >= 1
    /\ LastOp.content.kind = "IF"
    /\ LastOp.content.then = then

\* The latest executed line ran the given keyword, as a statement or as
\* the action of an IF with a true condition.
Ran(line, kind) ==
    \/ line.content.kind = kind
    \/ line.content.kind = "IF" /\ line.content.cond /\ line.content.then = kind

(***************************************************************************)
(* C37: IF <condition> THEN <line number> with a true condition transfers  *)
(* execution to that line as GOTO does; with a false condition execution   *)
(* continues at the next program line.                                     *)
(***************************************************************************)
C37_IfThenLineNumber ==
    IfExecuted("NUMBER") =>
        IF LastOp.content.cond
        THEN TransferredTo(LastOp.content.target)
        ELSE ContinuesAt(LastOp.index + 1)

\* The same for IF <condition> THEN GOTO <line number>.
C37_IfThenGoto ==
    IfExecuted("GOTO") =>
        IF LastOp.content.cond
        THEN TransferredTo(LastOp.content.target)
        ELSE ContinuesAt(LastOp.index + 1)

\* A true IF <condition> THEN <line number> goes on at the next line.
C37_IfThenLineNumberFallsThrough ==
    (IfExecuted("NUMBER") /\ LastOp.content.cond) => ContinuesAt(LastOp.index + 1)

(***************************************************************************)
(* C38: GOSUB n transfers to line n; the matching RETURN resumes at the    *)
(* line after the line of the GOSUB with the call stack as deep as before  *)
(* the GOSUB; RETURN on an empty call stack ends the program with          *)
(* ?RETURN WITHOUT GOSUB ERROR.                                            *)
(***************************************************************************)
\* The position in hist of the GOSUB that the latest line, a RETURN,
\* answers: the latest line that took the call stack to its depth.
MatchingGosub ==
    LET pushes == {j \in 1..(NOps - 1) :
                      /\ hist[j].depth = LastOp.depthBefore
                      /\ hist[j].depthBefore = LastOp.depthBefore - 1}
    IN  CHOOSE j \in pushes : \A o \in pushes : o <= j

GosubTransfers ==
    (NOps >= 1 /\ Ran(LastOp, "GOSUB")) =>
        /\ TransferredTo(LastOp.content.target)
        /\ LastOp.depth = LastOp.depthBefore + 1

ReturnResumes ==
    (NOps >= 1 /\ Ran(LastOp, "RETURN") /\ LastOp.depthBefore > 0) =>
        /\ ContinuesAt(hist[MatchingGosub].index + 1)
        /\ Len(clock.basicCallStack) = hist[MatchingGosub].depthBefore

ReturnWithoutGosub ==
    (NOps >= 1 /\ Ran(LastOp, "RETURN") /\ LastOp.depthBefore = 0) =>
        /\ ~clock.executionContext.live
        /\ ~clock.scheduled
        /\ \E i \in 1..Len(clock.printed) : clock.printed[i] = "?RETURN WITHOUT GOSUB ERROR"

C38_GosubReturn == GosubTransfers /\ ReturnResumes /\ ReturnWithoutGosub

\* The same when the GOSUB is a statement of its own, not the action of
\* an IF.
C38_StatementGosubReturn ==
    /\ GosubTransfers
    /\ ReturnWithoutGosub
    /\ (NOps >= 2 /\ Ran(LastOp, "RETURN") /\ LastOp.depthBefore > 0
          /\ hist[MatchingGosub].content.kind = "GOSUB") => ReturnResumes

\* After IF <true> THEN GOSUB and its RETURN the next callback throws.
C38_ReturnIntoNowhere ==
    (NOps >= 2 /\ Ran(LastOp, "RETURN") /\ LastOp.depthBefore > 0
       /\ hist[MatchingGosub].content.kind = "IF")
    => clock.executionContext.currentIndex = NaN

====
